---- MODULE Spec2Model ----
(***************************************************************************)
(* cflow: the component lifecycle and retry orchestrator.                  *)
(*                                                                         *)
(*   Spec      Workflow.run() (src/cflow/workflow.py) driving the tasks    *)
(*             of src/cflow/task_base.py and src/tasks/*.py                *)
(*   SpecRerun Workflow.run() called up to MaxRuns times                   *)
(*   SpecTask  TaskBase.execute() and the execute() overrides, called      *)
(*             directly                                                    *)
(*   SpecConn  ConnectorBase.connect()/disconnect() and                    *)
(*             FTPConnector.disconnect()                                   *)
(*   SpecListen Workflow.listen() and the threads of the listeners         *)
(*   SpecStop  SpecListen with Workflow.stop_listeners() as well           *)
(*   SpecFlux  Flux.run() (src/fluxr/flux.py) and the async                *)
(*             Task.execute() (src/fluxr/base.py)                          *)
(*   SpecPoll  one listener of src/listeners and                           *)
(*             src/compenents/listeners: its caller and its thread         *)
(*   SpecTool  ToolBase.run() (src/core/tool/tool_base.py)                 *)
(*   SpecEvents two listener threads in on_event(), each calling           *)
(*             Workflow.run() on the same workflow                         *)
(*                                                                         *)
(* Every call into a collaborator outside the orchestrator (a hook, a      *)
(* connector handshake, a tool, a notification, the callback) is an input: *)
(* its outcome is chosen with \E at the step that makes the call.          *)
(***************************************************************************)
EXTENDS Naturals, Sequences, FiniteSets

\* ---------------------------------------------------------------- bounds
NumTasks == 2
NumConnectors == 2
NumTools == 2
MaxRetryAttempts == 3
MaxRuns == 2
MaxElapsed == 1
NumListeners == 2
MaxEvents == 2
NumTriggers == 2
MaxItems == 2
MaxToolRetries == 2

\* ------------------------------------------------------ program constants
\* TaskBase.__init__: retry_attempts: int = 3
DefaultRetryAttempts == 3
\* The connect loop with one attempt more.
ConnectAttempts_Four == 3 + 1

\* Workflow._connect_connectors: while attempt < 3
ConnectAttempts == 3

\* ToolBase.__init__: max_retries: int = 3
DefaultMaxRetries == 3

Tasks == 1..NumTasks
Connectors == 1..NumConnectors
Tools == 1..NumTools
\* The ids of the items (files, cards) a polled source can hold.
Items == 1..MaxItems

\* The classes of task whose execute() the model follows.
TaskKinds == {"TaskBase", "ExcelToTelegramTask", "ExcelToRestTask"}
\* The kinds whose execute() is a retry loop over self.state.
RetryKinds == {"TaskBase", "ExcelToTelegramTask"}

TaskStates == {"initialized", "starting", "running", "retrying",
               "completed", "failed", "validation_failed"}

WorkflowState == {"Ready", "Running", "Paused", "Completed", "Failed"}

VARIABLES
    \* --- tasks: construction parameters (fixed after Init)
    task_kind,        \* task -> class of the task
    task_connectors,  \* task -> len(self.connectors); bound to connectors 1..k
    task_tools,       \* task -> len(self.tools); bound to tools 1..k
    retry_attempts,   \* task -> self.retry_attempts
    \* --- tasks: runtime
    task_state,       \* task -> self.state
    tcur,             \* the task whose execute() is on the stack (0: none)
    tpc,              \* position inside that execute()
    attempt,          \* execute()'s local attempt
    tj,               \* index of the connector/tool loops of the body
    tcaller,          \* who called execute(): "direct" or "workflow"
    tlog,             \* what this execute() call did so far, in order
    \* --- connectors
    connected,        \* connector -> self.connected
    notifiable,       \* connector -> isinstance(connector, NotifiableConnector)
    \* --- workflow
    state,            \* Workflow.state
    metrics,          \* Workflow.metrics
    wpc,              \* position inside run()
    wi,               \* index of the loop run() is in
    wattempt,         \* _connect_connectors' local attempt
    callback,         \* run()'s callback argument: "none", "ok", "raises"
    runs,             \* number of run() calls started
    hist,             \* what the current run() did (per run, reset at its start)
    prev,             \* hist and metrics as the previous run() left them
    clog,             \* the connect phase of the current run(), per connector
    toollog,          \* the tool phase of the current run(), per tool
    \* --- one connector followed step by step (SpecConn)
    conn,             \* its class and its fields connected, credentials, ftp
    cframe,           \* the connect()/disconnect() call in progress
    \* --- listeners (SpecListen)
    listeners,        \* Workflow.listeners: the registered listeners, in order
    lframe,           \* the listen() call in progress
    \* --- the async orchestrator (SpecFlux)
    flux,             \* Flux: trigger_mode and the run() call in progress
    ftask,            \* Flux.tasks: each task's lists and what happened to it
    fexec,            \* the async Task.execute() call in progress
    \* --- components followed on their own
    poller,           \* one listener, its thread and its caller (SpecPoll)
    tool,             \* one ToolBase and its run() call (SpecTool)
    runner            \* event thread -> its on_event()/run() call (SpecEvents)

taskCfg == <<task_kind, task_connectors, task_tools, retry_attempts>>
taskFrame == <<tcur, tpc, attempt, tj, tcaller, tlog>>
wfVars == <<state, metrics, wpc, wi, wattempt, callback, runs, hist, prev, clog,
           toollog,
            notifiable>>
connVars == <<conn, cframe>>
lsnVars == <<listeners, lframe>>
fluxVars == <<flux, ftask, fexec>>
compVars == <<poller, tool, runner>>
nonPoller == <<tool, runner>>
nonTool == <<poller, runner>>
\* What a run() made by an event thread leaves alone of the workflow.
wfRest == <<wpc, wi, wattempt, callback, runs, hist, prev, clog, toollog,
            notifiable>>
vars == <<taskCfg, task_state, taskFrame, connected, wfVars, connVars, lsnVars,
          fluxVars, compVars>>

\* ============================================================== helpers
RECURSIVE CountOf(_, _)
\* Number of entries of sequence s that are in set S.
CountOf(s, S) ==
    IF s = <<>> THEN 0
    ELSE (IF Head(s) \in S THEN 1 ELSE 0) + CountOf(Tail(s), S)

RECURSIVE Restrict(_, _)
\* The subsequence of s of the entries in S.
Restrict(s, S) ==
    IF s = <<>> THEN <<>>
    ELSE (IF Head(s) \in S THEN <<Head(s)>> ELSE <<>>) \o Restrict(Tail(s), S)

\* ================================================== connectors, as called
\* connector.connect() seen from a caller. ConnectorBase.connect() sets
\* connected = True between the handshake and post_connect_hook(): it returns
\* with connected true, raises before that line with connected untouched, or
\* raises from post_connect_hook() with connected already true.
ConnectOutcomes == {"returns", "raises", "raises_post_hook"}

ConnectorConnect(c, outcome) ==
    connected' = [connected EXCEPT ![c] =
                     IF outcome = "raises" THEN @ ELSE TRUE]

ConnectRaised(outcome) == outcome # "returns"

\* =================================================== TaskBase.validate()
\* validate(): False, with state = "validation_failed", when the task has no
\* connector; True otherwise, with state untouched.
TaskValidateResult(i) == task_connectors[i] # 0

\* validate() returning False without touching the state.
StateAfterValidate_Untouched(i, s) == s

\* self.state after validate(): "validation_failed" when it returns False.
StateAfterValidate(i, s) ==
    IF task_connectors[i] = 0 THEN "validation_failed" ELSE s


\* ==================================================== TaskBase.execute()
\* while attempt < self.retry_attempts
AttemptsRemain(a, n) == a < n

\* Off by one: the except block still retries when attempt equals the bound.
RetriesExhausted_OffByOne(a, n) == a > n

\* if attempt >= self.retry_attempts (in the except block)
RetriesExhausted(a, n) == a >= n

\* The states the except block assigns, in order, once attempt has been
\* incremented to a: TaskBase sets "retrying", then "failed" when no attempt
\* is left; ExcelToTelegramTask's except block only sets "retrying".
ExceptStates(kind, a, n) ==
    IF kind = "TaskBase" /\ RetriesExhausted(a, n)
    THEN <<"retrying", "failed">>
    ELSE <<"retrying">>

\* Whether the except block calls _retry_logic(attempt), which sleeps.
SleepsAfterFailure(kind, a, n) ==
    kind = "TaskBase" /\ ~RetriesExhausted(a, n)

\* The log entries that are values assigned to self.state.
StateTrace(log) == Restrict(log, TaskStates)

\* Setting self.state of the running task, and logging it.
SetTaskState(s) ==
    /\ task_state' = [task_state EXCEPT ![tcur] = s]
    /\ tlog' = Append(tlog, s)

\* execute() is entered by `who`: TaskBase and ExcelToTelegramTask start with
\* self.state = "starting"; ExcelToRestTask.execute() has no state handling.
TaskEnter(i, who) ==
    /\ tcur' = i
    /\ tcaller' = who
    /\ attempt' = 0
    /\ tj' = 0
    /\ IF task_kind[i] \in RetryKinds
       THEN /\ task_state' = [task_state EXCEPT ![i] = "starting"]
            /\ tlog' = <<"starting">>
            /\ tpc' = "validate"
       ELSE /\ tlog' = <<>>
            /\ tpc' = "body"
            /\ UNCHANGED task_state

\* if not self.validate(): return
TaskExecValidate ==
    /\ tpc = "validate"
    /\ IF TaskValidateResult(tcur)
       THEN /\ tpc' = "loop"
            /\ UNCHANGED <<task_state, tlog>>
       ELSE /\ SetTaskState(StateAfterValidate(tcur, task_state[tcur]))
            /\ tpc' = "returned"
    /\ UNCHANGED <<taskCfg, tcur, attempt, tj, tcaller, connected, wfVars, connVars, lsnVars, fluxVars, compVars>>

\* The while test, and the first statement of the try block.
TaskLoop ==
    /\ tpc = "loop"
    /\ IF AttemptsRemain(attempt, retry_attempts[tcur])
       THEN /\ SetTaskState("running")
            /\ tpc' = "pre_hook"
       ELSE /\ tpc' = "returned"
            /\ UNCHANGED <<task_state, tlog>>
    /\ UNCHANGED <<taskCfg, tcur, attempt, tj, tcaller, connected, wfVars, connVars, lsnVars, fluxVars, compVars>>

\* self.pre_execute_hook()
TaskPreHook ==
    /\ tpc = "pre_hook"
    /\ tlog' = Append(tlog, "pre_hook")
    /\ \E ok \in BOOLEAN :
          tpc' = IF ~ok THEN "except"
                 ELSE IF task_kind[tcur] = "TaskBase" THEN "connectors"
                 ELSE "body"
    /\ tj' = 1
    /\ UNCHANGED <<taskCfg, task_state, tcur, attempt, tcaller, connected, wfVars,
                   connVars, lsnVars, fluxVars, compVars>>

\* self._run_connectors(): connect() on each bound connector, re-raising.
TaskRunConnectors ==
    /\ tpc = "connectors"
    /\ IF tj <= task_connectors[tcur]
       THEN /\ UNCHANGED tlog
            /\ \E outcome \in ConnectOutcomes :
                  /\ ConnectorConnect(tj, outcome)
                  /\ IF ConnectRaised(outcome)
                     THEN tpc' = "except" /\ tj' = tj
                     ELSE tpc' = "connectors" /\ tj' = tj + 1
       ELSE /\ tpc' = "tools"
            /\ tj' = 1
            /\ UNCHANGED <<tlog, connected>>
    /\ UNCHANGED <<taskCfg, task_state, tcur, attempt, tcaller, wfVars, connVars, lsnVars, fluxVars, compVars>>

\* How tool.run() can end for its caller: ToolBase.run() returns with the
\* tool in state Success, or returns None with the tool in state Failed once
\* its own retries are spent; a run() that is not ToolBase's may raise.
ToolRunOutcomes == {"tool_Success", "tool_Failed", "raised"}

\* _run_tools(): try: tool.run() except Exception: log, raise. The return
\* value and the state of the tool are not looked at.
ToolRunFails(outcome) == outcome = "raised"

\* self._run_tools(): run() on each bound tool, re-raising.
TaskRunTools ==
    /\ tpc = "tools"
    /\ IF tj <= task_tools[tcur]
       THEN \E outcome \in ToolRunOutcomes :
               /\ tlog' = IF outcome = "raised" THEN tlog
                          ELSE Append(tlog, outcome)
               /\ IF ToolRunFails(outcome)
                  THEN tpc' = "except" /\ tj' = tj
                  ELSE tpc' = "tools" /\ tj' = tj + 1
       ELSE /\ tpc' = "post_hook"
            /\ tj' = 1
            /\ UNCHANGED tlog
    /\ UNCHANGED <<taskCfg, task_state, tcur, attempt, tcaller, connected,
                   wfVars, connVars, lsnVars, fluxVars, compVars>>

\* ExcelToTelegramTask: self._read_from_excel_and_send_to_telegram(), inside
\* the try block. ExcelToRestTask: the whole of execute(), with no try block.
TaskBody ==
    /\ tpc = "body"
    /\ \E ok \in BOOLEAN :
          tpc' = IF task_kind[tcur] = "ExcelToRestTask"
                 THEN (IF ok THEN "returned" ELSE "raised")
                 ELSE (IF ok THEN "post_hook" ELSE "except")
    /\ UNCHANGED <<taskCfg, task_state, tcur, attempt, tj, tcaller, tlog,
                   connected, wfVars, connVars, lsnVars, fluxVars, compVars>>

\* self.post_execute_hook(); self.state = "completed"; break
TaskPostHook ==
    /\ tpc = "post_hook"
    /\ \E ok \in BOOLEAN :
          IF ok
          THEN /\ SetTaskState("completed")
               /\ tpc' = "returned"
          ELSE /\ tpc' = "except"
               /\ UNCHANGED <<task_state, tlog>>
    /\ UNCHANGED <<taskCfg, tcur, attempt, tj, tcaller, connected, wfVars, connVars, lsnVars, fluxVars, compVars>>

\* except Exception: attempt += 1; self.state = "retrying"; then, in TaskBase,
\* "failed" when no attempt is left and _retry_logic(attempt) otherwise.
TaskExcept ==
    /\ tpc = "except"
    /\ attempt' = attempt + 1
    /\ LET ss == ExceptStates(task_kind[tcur], attempt + 1, retry_attempts[tcur])
       IN /\ task_state' = [task_state EXCEPT ![tcur] = ss[Len(ss)]]
          /\ tlog' = tlog \o ss
    /\ tpc' = IF SleepsAfterFailure(task_kind[tcur], attempt + 1, retry_attempts[tcur])
              THEN "sleep" ELSE "loop"
    /\ UNCHANGED <<taskCfg, tcur, tj, tcaller, connected, wfVars, connVars, lsnVars, fluxVars, compVars>>

\* self._retry_logic(attempt): time.sleep(self.backoff_factor ** attempt)
TaskRetryLogic ==
    /\ tpc = "sleep"
    /\ tlog' = Append(tlog, "sleep")
    /\ tpc' = "loop"
    /\ UNCHANGED <<taskCfg, task_state, tcur, attempt, tj, tcaller, connected,
                   wfVars, connVars, lsnVars, fluxVars, compVars>>

\* execute()'s frame is dropped when it hands control back.
PopFrame ==
    /\ tpc' = "idle"
    /\ tcur' = 0
    /\ attempt' = 0
    /\ tj' = 0
    /\ tcaller' = "direct"
    /\ tlog' = <<>>

\* execute() called directly on a task.
TaskCall(i) ==
    /\ tpc = "idle"
    /\ wpc = "idle"
    /\ TaskEnter(i, "direct")
    /\ UNCHANGED <<taskCfg, connected, wfVars, connVars, lsnVars, fluxVars, compVars>>

\* execute() hands control back to its direct caller.
TaskReturn ==
    /\ tpc \in {"returned", "raised"}
    /\ tcaller = "direct"
    /\ PopFrame
    /\ UNCHANGED <<taskCfg, task_state, connected, wfVars, connVars, lsnVars, fluxVars, compVars>>

TaskStep ==
    \/ TaskExecValidate
    \/ TaskLoop
    \/ TaskPreHook
    \/ TaskRunConnectors
    \/ TaskRunTools
    \/ TaskBody
    \/ TaskPostHook
    \/ TaskExcept
    \/ TaskRetryLogic

\* ------------------------------------------------------------ initial state
\* What a run() has done when it has done nothing yet: the tasks whose
\* validate() and execute() it called, those whose execution succeeded and
\* failed, how the connect phase ended, which of the later calls (a tool's
\* run(), a notify(), the callback) it made, and which of them raised into
\* the outer except block.
\* The connect phase before it has done anything: the connectors whose
\* validate_connection() returned False, the number of connect() calls made on
\* each connector and the number of the call that returned (0: none yet).
NoConnectLog ==
    [invalid |-> {}, calls |-> [c \in Connectors |-> 0],
     ok_at |-> [c \in Connectors |-> 0]]

\* The tool phase before it has done anything: the tools whose validate()
\* returned True, those whose run() was called, and those whose validate() or
\* run() raised.
NoToolLog == [valid |-> {}, run |-> {}, raised |-> {}]

NoHistory ==
    [validated |-> {}, executed |-> {}, ok |-> {}, failed |-> {},
     connect |-> "none", later |-> {}, raised |-> "none"]

\* Workflow.__init__, and no run() in progress.
InitWorkflowIdle ==
    /\ state = "Ready"
    /\ metrics = [total_execution_time |-> 0, failed_tasks |-> 0,
                  successful_tasks |-> 0]
    /\ wpc = "idle"
    /\ wi = 0
    /\ wattempt = 0
    /\ callback = "none"
    /\ runs = 0
    /\ hist = NoHistory
    /\ clog = NoConnectLog
    /\ toollog = NoToolLog
    /\ prev = [hist |-> NoHistory, metrics |-> metrics]

\* No call in progress on the connector: pc is the position, op the method
\* called, before the value of connected when it was called, exc the
\* exception in flight, orig the exception as first raised and cause the step
\* that raised it.
NoCall ==
    [pc |-> "idle", op |-> "none", before |-> FALSE, exc |-> "none",
     orig |-> "none", cause |-> "none"]

\* ConnectorBase.__init__: self.connected = False; FTPConnector: self.ftp = None
NewConnector(class) ==
    [class |-> class, connected |-> FALSE, credentials |-> <<>>, ftp |-> FALSE]

InitConnIdle ==
    /\ conn = NewConnector("ConnectorBase")
    /\ cframe = NoCall

\* No listen() call in progress: pc is the position, i the index of the loop
\* over self.listeners, calls the number of listen() calls made, run_calls
\* the number of run() calls listen() made and stop_calls the number of
\* stop_listeners() calls made.
NoListen ==
    [pc |-> "idle", i |-> 0, calls |-> 0, run_calls |-> 0, stop_calls |-> 0]

\* Workflow.__init__ with no listeners: self.listeners = []
InitListenIdle ==
    /\ listeners = <<>>
    /\ lframe = NoListen

\* Flux(): no run() in progress. mode is trigger_mode, pc the position in
\* run()/_execute_tasks(), i the index of the loop over self.tasks, k the
\* index of the loop over task.triggers, cause the call an exception came
\* from, calls the number of run() calls made.
NoFlux ==
    [mode |-> "manual", pc |-> "idle", i |-> 0, k |-> 0, cause |-> "none",
     calls |-> 0]

\* No async Task.execute() in progress: pc is the position, j the index of
\* the loop it is in, sub the await of the loop body that comes next, result
\* the local variable of that name, conns the number of connect() calls that
\* returned and were not undone by disconnect(), pending whether the finally
\* block runs because of an exception, log the tool.execute() calls made,
\* dlog the calls the finally block made (connector, method), exc where the
\* exception that leaves execute() came from ("none", "pre_execute", "body",
\* "cleanup").
NoExec ==
    [pc |-> "idle", j |-> 0, sub |-> 0, result |-> "None", conns |-> 0,
     pending |-> FALSE, log |-> <<>>, dlog |-> <<>>, exc |-> "none"]

\* No Flux at all (the specifications of the synchronous Workflow).
InitFluxIdle ==
    /\ flux = NoFlux
    /\ ftask = <<>>
    /\ fexec = NoExec

\* A listener as its constructor leaves it (self.thread = None,
\* self.running = False) and before its thread has run: kind is its class,
\* caller the position of the code that calls start() and stop(), thread the
\* position of the background thread, known the local known-items set, listed
\* the listing taken before the loop, todo the items of the current poll the
\* for loop has still to go through, seen the ids successful polls of the loop
\* returned, calls the number of times the new-item handler ran per id,
\* failed and again whether a poll failed and whether a poll returned an id
\* that was known already, served the requests the server answered.
NewPoller(kind) ==
    [kind |-> kind, caller |-> "idle", thread |-> "none", running |-> FALSE,
     known |-> {}, listed |-> {}, todo |-> {}, seen |-> {},
     calls |-> [id \in Items |-> 0], failed |-> FALSE, again |-> FALSE,
     served |-> 0]

\* ToolBase.__init__ (self.state = ToolState.INIT) and no run() in progress:
\* pc is the position in run(), attempt its local variable, tried the calls
\* of _run_logic() this run() made, others the attempts that ended otherwise
\* than by _run_logic() raising, sleeps the _retry_wait() calls this run()
\* made, ret what run() returned ("none": nothing yet), calls the run() calls
\* made.
NewTool(max_retries) ==
    [max_retries |-> max_retries, state |-> "Initialized", pc |-> "idle",
     attempt |-> 0, tried |-> 0, others |-> 0, sleeps |-> 0, ret |-> "none",
     calls |-> 0]

\* No listener followed on its own.
InitPollIdle == poller = NewPoller("none")

\* No tool followed on its own.
InitToolIdle == tool = NewTool(DefaultMaxRetries)

\* The threads of the two listener events.
EventThreads == {1, 2}

\* No on_event() in progress on a thread: pc is the position in run(), i the
\* index of the loop over self.tasks, key the counter being incremented, reg
\* the value read from it, incs the increments this thread started.
NoRunner ==
    [pc |-> "idle", i |-> 0, key |-> "none", reg |-> 0, incs |-> 0]

\* No event thread at all.
InitRunnerIdle == runner = [t \in EventThreads |-> NoRunner]

InitCompIdle ==
    /\ InitPollIdle
    /\ InitToolIdle
    /\ InitRunnerIdle

\* TaskBase.__init__: self.state = "initialized"
InitTaskIdle ==
    /\ task_state = [i \in Tasks |-> "initialized"]
    /\ tcur = 0
    /\ tpc = "idle"
    /\ attempt = 0
    /\ tj = 0
    /\ tcaller = "direct"
    /\ tlog = <<>>

\* The tasks execute() is called on directly.
DirectTasks == {1}

InitTask ==
    /\ task_kind \in [Tasks -> TaskKinds]
    /\ task_connectors \in [Tasks -> 0..NumConnectors]
    /\ task_tools \in [Tasks -> 0..NumTools]
    /\ retry_attempts \in [Tasks -> 0..MaxRetryAttempts]
    /\ \A i \in Tasks \ DirectTasks :
          /\ task_kind[i] = "TaskBase"
          /\ task_connectors[i] = 0
          /\ task_tools[i] = 0
          /\ retry_attempts[i] = DefaultRetryAttempts
    /\ InitTaskIdle
    /\ connected = [c \in Connectors |-> FALSE]
    /\ notifiable = [c \in Connectors |-> FALSE]
    /\ InitWorkflowIdle
    /\ InitConnIdle
    /\ InitListenIdle
    /\ InitFluxIdle
    /\ InitCompIdle

NextTask ==
    \/ \E i \in DirectTasks : TaskCall(i)
    \/ TaskStep
    \/ TaskReturn

SpecTask == InitTask /\ [][NextTask]_vars


\* ================================================ claims on execute()
\* The attempts (each starts with pre_execute_hook()) and the backoff sleeps of
\* the current execute() call, in order.
AttemptsAndSleeps == Restrict(tlog, {"pre_hook", "sleep"})

\* execute() has returned after a validation that passed and with no attempt
\* that succeeded: the body raised on every attempt.
ReturnedAllFailed(kind) ==
    /\ tpc = "returned"
    /\ tcur # 0
    /\ task_kind[tcur] = kind
    /\ retry_attempts[tcur] >= 1
    /\ TaskValidateResult(tcur)
    /\ CountOf(tlog, {"completed"}) = 0

\* C5: when execute() of a task with a retry loop (TaskBase,
\* ExcelToTelegramTask) and retry_attempts >= 1 returns, the task state is
\* completed, failed or validation_failed.
C5_TerminalState ==
    (/\ tpc = "returned"
     /\ tcur # 0
     /\ task_kind[tcur] \in RetryKinds
     /\ retry_attempts[tcur] >= 1)
    => task_state[tcur] \in {"completed", "failed", "validation_failed"}

\* C6: a TaskBase with retry_attempts = n >= 1 whose body raises on every
\* attempt runs the body exactly n times and sleeps exactly n - 1 times; at
\* every moment of any execute() the attempts and sleeps alternate, starting
\* with an attempt, and when execute() returns the last of them is an attempt
\* (no sleep before the first attempt, after the last one or after a success).
C6_RetryCount ==
    /\ ReturnedAllFailed("TaskBase")
       => /\ CountOf(tlog, {"pre_hook"}) = retry_attempts[tcur]
          /\ CountOf(tlog, {"sleep"}) = retry_attempts[tcur] - 1
    /\ (tcur # 0 /\ task_kind[tcur] = "TaskBase")
       => /\ \A k \in 1..Len(AttemptsAndSleeps) :
                AttemptsAndSleeps[k] = IF k % 2 = 1 THEN "pre_hook" ELSE "sleep"
          /\ tpc = "returned" /\ AttemptsAndSleeps # <<>>
             => AttemptsAndSleeps[Len(AttemptsAndSleeps)] = "pre_hook"

\* C6 witness: a TaskBase with 3 attempts has failed them all and returned,
\* having slept twice.
C6_Witness ==
    /\ ReturnedAllFailed("TaskBase")
    /\ retry_attempts[tcur] = 3
    /\ task_state[tcur] = "failed"
    /\ CountOf(tlog, {"sleep"}) = 2

\* The state sequence the retry contract gives for n attempts that all fail.
RECURSIVE Retrying(_)
Retrying(k) == IF k = 0 THEN <<>> ELSE <<"retrying">> \o Retrying(k - 1)

ContractTrace(n) == <<"starting", "running">> \o Retrying(n - 1) \o <<"failed">>

\* C7: for a TaskBase with retry_attempts = n whose body always fails, the
\* values taken by state during execute() are starting, running, retrying
\* n - 1 times, failed.
C7_StateSequence ==
    ReturnedAllFailed("TaskBase")
    => StateTrace(tlog) = ContractTrace(retry_attempts[tcur])


\* ========================================================= Workflow.run()
\* What run() is called with: no callback, one that returns, one that raises.
Callbacks == {"none", "ok", "raises"}

\* A boolean method of a collaborator returns True, returns False or raises.
BoolOutcomes == {"true", "false", "raises"}

\* Where run() goes when _connect_connectors() raised: the inner except block
\* sets state = FAILED and returns.
AfterConnectError_FallsThrough == "tasks"

AfterConnectError == "done"

\* Where run() goes after the per-task try block, whether execute() returned
\* or raised: on to the next task.
AfterTask_AbortsOnError(raised) == IF raised THEN "outer_except" ELSE "tasks"

AfterTask(raised) == "tasks"

\* The task loop stepping over every other task.
NextTaskIndex_SkipsOne(i) == i + 2

\* for task in self.tasks: the loop takes the tasks in list order, each once.
NextTaskIndex(i) == i + 1

\* The metrics after task.execute() returned (successful_tasks += 1) or raised
\* out of the per-task try block (failed_tasks += 1).
CountTask(m, raised) ==
    IF raised
    THEN [m EXCEPT !.failed_tasks = @ + 1]
    ELSE [m EXCEPT !.successful_tasks = @ + 1]

\* Whether the execution of the task that has just come back failed: execute()
\* raised, or its last attempt raised and left the task failed or retrying.
TaskExecFailed ==
    \/ tpc = "raised"
    \/ task_state[tcur] \in {"failed", "retrying"}

\* run() with the notify phase written before the tool loop.
PhaseAfter_NotifyBeforeTools(phase) ==
    CASE phase = "validate_connections" -> "connect"
      [] phase = "connect" -> "tasks"
      [] phase = "tasks" -> "notify"
      [] phase = "notify" -> "tools"
      [] phase = "tools" -> "callback"

\* The order of the phases in the body of run(): the two loops of
\* _connect_connectors(), the task loop, the tool loop, _notify_connectors()
\* with the final state and metrics, then the callback.
PhaseAfter(phase) ==
    CASE phase = "validate_connections" -> "connect"
      [] phase = "connect" -> "tasks"
      [] phase = "tasks" -> "tools"
      [] phase = "tools" -> "notify"
      [] phase = "notify" -> "callback"

\* run() is called, for at most `limit` times: self.state = RUNNING
WfRun(cb, limit) ==
    /\ wpc = "idle"
    /\ tpc = "idle"
    /\ runs < limit
    /\ runs' = runs + 1
    /\ callback' = cb
    /\ state' = "Running"
    /\ prev' = [hist |-> hist, metrics |-> metrics]
    /\ hist' = NoHistory
    /\ clog' = NoConnectLog
    /\ toollog' = NoToolLog
    /\ wpc' = "validate_connections"
    /\ wi' = 1
    /\ wattempt' = 0
    /\ UNCHANGED <<metrics, notifiable, taskCfg, task_state, taskFrame, connected,
                   connVars, fluxVars, compVars>>

\* _connect_connectors(), first loop: validate_connection() on every
\* connector; a False result is logged and the loop continues.
WfValidateConnection ==
    /\ wpc = "validate_connections"
    /\ IF wi <= NumConnectors
       THEN \E r \in BoolOutcomes :
               IF r = "raises"
               THEN /\ state' = "Failed"
                    /\ hist' = [hist EXCEPT !.connect = "validate_raised"]
                    /\ wpc' = AfterConnectError
                    /\ wi' = 1
                    /\ UNCHANGED clog
               ELSE /\ wi' = wi + 1
                    /\ clog' = IF r = "false"
                               THEN [clog EXCEPT !.invalid = @ \cup {wi}]
                               ELSE clog
                    /\ UNCHANGED <<state, hist, wpc>>
       ELSE /\ wpc' = PhaseAfter("validate_connections")
            /\ wi' = 1
            /\ UNCHANGED <<state, hist, clog>>
    /\ wattempt' = 0
    /\ UNCHANGED <<toollog, metrics, callback, runs, prev, notifiable, taskCfg, task_state,
                   taskFrame, connected, connVars, lsnVars, fluxVars, compVars>>

\* _connect_connectors(), second loop: up to 3 connect() attempts on each
\* connector, a sleep of 2 ** attempt after each failure; the while's else
\* raises, and run() then sets state = FAILED and returns.
WfConnect ==
    /\ wpc = "connect"
    /\ IF wi > NumConnectors
       THEN /\ wpc' = PhaseAfter("connect")
            /\ wi' = 1
            /\ hist' = [hist EXCEPT !.connect = "ok"]
            /\ clog' = NoConnectLog
            /\ UNCHANGED <<state, wattempt, connected>>
       ELSE IF wattempt < ConnectAttempts
       THEN \E outcome \in ConnectOutcomes :
               /\ ConnectorConnect(wi, outcome)
               /\ clog' = [clog EXCEPT
                             !.calls[wi] = @ + 1,
                             !.ok_at[wi] = IF ConnectRaised(outcome) THEN @
                                           ELSE clog.calls[wi] + 1]
               /\ IF ConnectRaised(outcome)
                  THEN wattempt' = wattempt + 1 /\ wi' = wi
                  ELSE wattempt' = 0 /\ wi' = wi + 1
               /\ UNCHANGED <<state, hist, wpc>>
       ELSE /\ state' = "Failed"
            /\ hist' = [hist EXCEPT !.connect = "exhausted"]
            /\ wpc' = AfterConnectError
            /\ wi' = 1
            /\ UNCHANGED <<wattempt, connected, clog>>
    /\ UNCHANGED <<toollog, metrics, callback, runs, prev, notifiable, taskCfg, task_state,
                   taskFrame, connVars, lsnVars, fluxVars, compVars>>

\* The task loop: if task.validate(): task.execute(), else log and skip.
WfTask ==
    /\ wpc = "tasks"
    /\ IF wi > NumTasks
       THEN /\ wpc' = PhaseAfter("tasks")
            /\ wi' = 1
            /\ UNCHANGED <<hist, task_state, taskFrame>>
       ELSE /\ hist' = [hist EXCEPT !.validated = @ \cup {wi}]
            /\ IF TaskValidateResult(wi)
               THEN /\ TaskEnter(wi, "workflow")
                    /\ wpc' = "in_task"
                    /\ wi' = wi
               ELSE /\ task_state' = [task_state EXCEPT ![wi] =
                                         StateAfterValidate(wi, @)]
                    /\ wpc' = "tasks"
                    /\ wi' = NextTaskIndex(wi)
                    /\ UNCHANGED taskFrame
    /\ UNCHANGED <<toollog, clog, state, metrics, wattempt, callback, runs, prev, notifiable,
                   taskCfg, connected, connVars, lsnVars, fluxVars, compVars>>

\* task.execute() comes back to run(): successful_tasks += 1 when it
\* returned, failed_tasks += 1 in the except block when it raised.
WfTaskDone ==
    /\ wpc = "in_task"
    /\ tpc \in {"returned", "raised"}
    /\ tcaller = "workflow"
    /\ metrics' = CountTask(metrics, tpc = "raised")
    /\ hist' = [hist EXCEPT !.executed = @ \cup {wi},
                            !.ok = IF TaskExecFailed THEN @ ELSE @ \cup {wi},
                            !.failed = IF TaskExecFailed THEN @ \cup {wi} ELSE @]
    /\ wpc' = AfterTask(tpc = "raised")
    /\ wi' = NextTaskIndex(wi)
    /\ PopFrame
    /\ UNCHANGED <<toollog, clog, state, wattempt, callback, runs, prev, notifiable, taskCfg,
                   task_state, connected, connVars, lsnVars, fluxVars, compVars>>

\* A tool's exception ends the tool loop and reaches the outer except block.
AfterTool_AbortsOnError(raised) == IF raised THEN "outer_except" ELSE "tools"

\* Where run() goes after the per-tool try block, whether validate() and
\* run() returned or one of them raised: on to the next tool.
AfterTool(raised) == "tools"

\* Whether run() calls tool.run(): only when tool.validate() returned True.
ToolIsRun(v) == v = "true"

\* The tool loop: if tool.validate(): tool.run(**params); an exception of
\* either is logged and the loop continues.
WfTool ==
    /\ wpc = "tools"
    /\ IF wi > NumTools
       THEN /\ wpc' = PhaseAfter("tools")
            /\ wi' = 1
            /\ UNCHANGED <<hist, toollog>>
       ELSE \E v \in BoolOutcomes, ok \in BOOLEAN :
               LET raised == v = "raises" \/ (ToolIsRun(v) /\ ~ok)
               IN /\ hist' = IF ToolIsRun(v)
                             THEN [hist EXCEPT !.later = @ \cup {"tool"}]
                             ELSE hist
                  /\ toollog' =
                        [valid |-> IF v = "true" THEN toollog.valid \cup {wi}
                                   ELSE toollog.valid,
                         run |-> IF ToolIsRun(v) THEN toollog.run \cup {wi}
                                 ELSE toollog.run,
                         raised |-> IF raised THEN toollog.raised \cup {wi}
                                    ELSE toollog.raised]
                  /\ wi' = wi + 1
                  /\ wpc' = AfterTool(raised)
    /\ UNCHANGED <<clog, state, metrics, wattempt, callback, runs, prev, notifiable,
                   taskCfg, task_state, taskFrame, connected, connVars, lsnVars, fluxVars, compVars>>

\* _notify_connectors(): notify() on every NotifiableConnector, with no try
\* block; then state = COMPLETED and total_execution_time is recorded.
\* run() parking the workflow after the notifications.
StateAfterNotify_Pauses(s) == "Paused"

\* self.state = WorkflowState.COMPLETED, after _notify_connectors()
StateAfterNotify(s) == "Completed"

WfNotify ==
    /\ wpc = "notify"
    /\ IF wi > NumConnectors
       THEN /\ state' = StateAfterNotify(state)
            /\ \E d \in 1..MaxElapsed :
                  metrics' = [metrics EXCEPT !.total_execution_time = d]
            /\ wpc' = PhaseAfter("notify")
            /\ UNCHANGED <<hist, wi>>
       ELSE /\ IF notifiable[wi]
               THEN \E ok \in BOOLEAN :
                       /\ hist' = [hist EXCEPT
                                      !.later = @ \cup {"notify"},
                                      !.raised = IF ok THEN @ ELSE "notify"]
                       /\ wpc' = IF ok THEN "notify" ELSE "outer_except"
               ELSE UNCHANGED <<hist, wpc>>
            /\ wi' = wi + 1
            /\ UNCHANGED <<state, metrics>>
    /\ UNCHANGED <<toollog, clog, wattempt, callback, runs, prev, notifiable, taskCfg, task_state,
                   taskFrame, connected, connVars, lsnVars, fluxVars, compVars>>

\* if callback: callback(self)
WfCallback ==
    /\ wpc = "callback"
    /\ hist' = IF callback = "none" THEN hist
               ELSE [hist EXCEPT
                       !.later = @ \cup {"callback"},
                       !.raised = IF callback = "raises" THEN "callback" ELSE @]
    /\ wpc' = IF callback = "raises" THEN "outer_except" ELSE "done"
    /\ UNCHANGED <<toollog, clog, state, metrics, wi, wattempt, callback, runs, prev, notifiable,
                   taskCfg, task_state, taskFrame, connected, connVars, lsnVars, fluxVars, compVars>>

\* The outer except block leaves the state as the try block set it.
OuterExceptState_KeepsState(s) == s

\* The state after the outer except block of run(): self.state = FAILED
OuterExceptState(s) == "Failed"

\* except Exception (the outer try of run()): self.state = FAILED
\* The outer handler raising the exception again.
AfterOuterExcept_Reraises == "raised"

\* The outer `except Exception` block ends without a raise: run() returns.
AfterOuterExcept == "done"

WfOuterExcept ==
    /\ wpc = "outer_except"
    /\ state' = OuterExceptState(state)
    /\ wpc' = AfterOuterExcept
    /\ UNCHANGED <<toollog, clog, metrics, wi, wattempt, callback, runs, hist, prev, notifiable,
                   taskCfg, task_state, taskFrame, connected, connVars, lsnVars, fluxVars, compVars>>

\* run() returns to its caller.
WfReturn ==
    /\ wpc = "done"
    /\ wpc' = "idle"
    /\ wi' = 0
    /\ wattempt' = 0
    /\ callback' = "none"
    /\ clog' = NoConnectLog
    /\ toollog' = NoToolLog
    /\ UNCHANGED <<state, metrics, runs, hist, prev, notifiable, taskCfg,
                   task_state, taskFrame, connected, connVars, lsnVars, fluxVars, compVars>>

\* A workflow of NumConnectors connectors, NumTasks tasks and NumTools tools,
\* as the constructors leave them. Each task is bound to no connector (its
\* validate() is False) or to the workflow's first connector, has no tool of
\* its own and keeps the default retry_attempts.
Init ==
    /\ task_kind \in [Tasks -> TaskKinds]
    /\ task_connectors \in [Tasks -> {0, 1}]
    /\ task_tools \in [Tasks -> {0}]
    /\ retry_attempts \in [Tasks -> {DefaultRetryAttempts}]
    /\ InitTaskIdle
    /\ connected = [c \in Connectors |-> FALSE]
    /\ notifiable \in [Connectors -> BOOLEAN]
    /\ InitWorkflowIdle
    /\ InitConnIdle
    /\ InitListenIdle
    /\ InitFluxIdle
    /\ InitCompIdle

\* The steps of a run() in progress.
WfStep ==
    \/ WfValidateConnection
    \/ WfConnect
    \/ WfTask
    \/ TaskStep
    \/ WfTaskDone
    \/ WfTool
    \/ WfNotify
    \/ WfCallback
    \/ WfOuterExcept
    \/ WfReturn

\* One run() on a freshly built workflow.
Next ==
    \/ \E cb \in Callbacks : WfRun(cb, 1) /\ UNCHANGED <<lsnVars, fluxVars, compVars>>
    \/ WfStep

Spec == Init /\ [][Next]_vars

\* Up to MaxRuns run() calls in succession on the same workflow.
NextRerun ==
    \/ \E cb \in Callbacks : WfRun(cb, MaxRuns) /\ UNCHANGED <<lsnVars, fluxVars, compVars>>
    \/ WfStep

SpecRerun == Init /\ [][NextRerun]_vars


\* ==================================================== claims on run()
\* The tasks whose validate() is True.
ValidTasks == {i \in Tasks : TaskValidateResult(i)}

\* C1: once the connect phase has succeeded, a failing task does not abort
\* the run: the state stays Running through the task, tool and notify phases,
\* and when run() returns every task has been validated, every valid task has
\* been executed, and the state is Completed unless a notify() or the callback
\* raised.
C1_TaskFailureIsolated ==
    /\ wpc \in {"tasks", "in_task", "tools", "notify"} => state = "Running"
    /\ (wpc = "done" /\ hist.connect = "ok")
       => /\ hist.validated = Tasks
          /\ hist.executed = ValidTasks
          /\ hist.raised = "none" => state = "Completed"

\* C1 witness: run() has returned Completed after the first task's execute()
\* raised (failed_tasks counted it) and the second task was then executed.
C1_Witness ==
    /\ wpc = "done"
    /\ state = "Completed"
    /\ 1 \in hist.failed
    /\ metrics.failed_tasks = 1
    /\ 2 \in hist.executed

\* C2: after one run() that completed on a fresh workflow of TaskBase tasks,
\* failed_tasks is the number of tasks whose execution failed and
\* successful_tasks the number whose execution succeeded; a task skipped by
\* validate() counts in neither.
C2_MetricsAccurate ==
    (/\ wpc = "done"
     /\ state = "Completed"
     /\ \A i \in Tasks : task_kind[i] = "TaskBase")
    => /\ metrics.failed_tasks = Cardinality(hist.failed)
       /\ metrics.successful_tasks = Cardinality(hist.ok)

\* C3: if a connector's connect() failed on all 3 attempts, then when run()
\* returns the state is Failed and the run has called no task's validate() or
\* execute(), no tool's run(), no notify() and no callback; no task state and
\* no metric has changed.
C3_FailFast ==
    (wpc = "done" /\ hist.connect = "exhausted")
    => /\ state = "Failed"
       /\ hist.validated = {}
       /\ hist.executed = {}
       /\ hist.later = {}
       /\ \A i \in Tasks : task_state[i] = "initialized"
       /\ metrics = prev.metrics

\* C3 witness: the first connector connected and the second one exhausted its
\* attempts; run() has returned.
C3_Witness ==
    /\ wpc = "done"
    /\ hist.connect = "exhausted"
    /\ connected[1]
    /\ ~connected[2]
    /\ state = "Failed"

\* C4: when run() is called twice on the same workflow, the second run
\* behaves as the first did and both complete, successful_tasks and
\* failed_tasks after the second run equal those after the first.
C4_Idempotent ==
    (wpc = "done" /\ runs >= 2 /\ hist = prev.hist /\ state = "Completed")
    => /\ metrics.successful_tasks = prev.metrics.successful_tasks
       /\ metrics.failed_tasks = prev.metrics.failed_tasks


\* ============================== ConnectorBase.connect() and disconnect()
\* The connector classes followed step by step.
ConnClasses == {"ConnectorBase", "FTPConnector"}

\* What a collaborator (a hook, the handshake, the teardown) may raise.
ExcTypes == {"ValueError", "Exception"}

\* get_env_keys() of the connector.
Keys == {"API_KEY", "HOST"}

\* r"^[A-Za-z0-9]{32,}$": the least length of a key-shaped credential.
KeyMinLen == 32

\* An environment variable: unset, or a string, of which the key pattern
\* reads the length and whether every character is alphanumeric.
Unset == [set |-> FALSE, len |-> 0, alnum |-> FALSE]

EnvValues ==
    {Unset} \cup [set : {TRUE}, len : {KeyMinLen - 1, KeyMinLen}, alnum : BOOLEAN]

\* re.match(r"^[A-Za-z0-9]{32,}$", value)
MatchesKeyPattern(v) == v.alnum /\ v.len >= KeyMinLen

\* load_environment_variables(): the keys it reports missing.
MissingVars(env) == {k \in Keys : ~env[k].set}

\* _validate_credentials() raises: the API_KEY does not match the pattern.
CredentialsInvalid(creds) ==
    \E k \in DOMAIN creds : k = "API_KEY" /\ ~MatchesKeyPattern(creds[k])

\* The except blocks of connect(): ConnectorBase re-raises a ValueError as
\* InvalidCredentialsError and anything else as ConnectionFailedError;
\* FTPConnector.connect() re-raises the exception as it is.
Reraise(class, exc) ==
    IF class = "ConnectorBase"
    THEN (IF exc = "ValueError" THEN "InvalidCredentialsError"
          ELSE "ConnectionFailedError")
    ELSE exc

\* connected is set before the handshake has been seen to succeed.
AfterHandshake_SetEarly(c, ok) == TRUE

\* self.connected = True is the statement after the handshake: it is reached
\* only when the handshake did not raise.
AfterHandshake(c, ok) == IF ok THEN TRUE ELSE c

\* connected after the except block of disconnect(): ConnectorBase sets it to
\* False before re-raising; FTPConnector.disconnect() only logs and re-raises.
AfterTeardownError(class, c) == IF class = "ConnectorBase" THEN FALSE ELSE c

nonConnVars ==
    <<taskCfg, task_state, taskFrame, connected, wfVars, lsnVars, fluxVars, compVars>>

\* An exception e is raised by the step `cause` of the try block.
Raise(e, cause) ==
    cframe' = [cframe EXCEPT !.pc = "except", !.exc = e, !.orig = e,
                             !.cause = cause]

Goto(pc) == cframe' = [cframe EXCEPT !.pc = pc]

\* The try block of connect() with post_connect_hook() before the handshake.
ConnStepAfter_PostHookEarly(step) ==
    CASE step = "pre_hook" -> "validate_parameters"
      [] step = "validate_parameters" -> "load_credentials"
      [] step = "load_credentials" -> "validate_credentials"
      [] step = "validate_credentials" -> "post_hook"
      [] step = "post_hook" -> "handshake"
      [] step = "handshake" -> "returned"

\* The statements of the try block of connect(), in order: the step that
\* follows a step that did not raise.
ConnStepAfter(step) ==
    CASE step = "pre_hook" -> "validate_parameters"
      [] step = "validate_parameters" -> "load_credentials"
      [] step = "load_credentials" -> "validate_credentials"
      [] step = "validate_credentials" -> "handshake"
      [] step = "handshake" -> "post_hook"
      [] step = "post_hook" -> "returned"

\* connect() or disconnect() is called on the connector.
ConnCall(op) ==
    /\ cframe.pc = "idle"
    /\ wpc = "idle"
    /\ tpc = "idle"
    /\ cframe' = [NoCall EXCEPT
                    !.pc = IF op = "connect" THEN "pre_hook" ELSE "teardown",
                    !.op = op,
                    !.before = conn.connected]
    /\ UNCHANGED <<conn, nonConnVars>>

\* self.pre_connect_hook(kwargs)
ConnPreHook ==
    /\ cframe.pc = "pre_hook"
    /\ \/ Goto(ConnStepAfter("pre_hook"))
       \/ \E e \in ExcTypes : Raise(e, "pre_hook")
    /\ UNCHANGED <<conn, nonConnVars>>

\* self.validate_parameters(kwargs): ValueError when a value is None.
ConnValidateParameters ==
    /\ cframe.pc = "validate_parameters"
    /\ \E has_none \in BOOLEAN :
          IF has_none THEN Raise("ValueError", "null_parameter")
          ELSE Goto(ConnStepAfter("validate_parameters"))
    /\ UNCHANGED <<conn, nonConnVars>>

\* self._load_credentials(): load_environment_variables() raises ValueError
\* when a key is missing, and else returns the values.
ConnLoadCredentials ==
    /\ cframe.pc = "load_credentials"
    /\ \E env \in [Keys -> EnvValues] :
          IF MissingVars(env) # {}
          THEN /\ Raise("ValueError", "missing_credential")
               /\ UNCHANGED conn
          ELSE /\ conn' = [conn EXCEPT !.credentials = env]
               /\ Goto(ConnStepAfter("load_credentials"))
    /\ UNCHANGED nonConnVars

\* self._validate_credentials(): raises InvalidCredentialsError.
ConnValidateCredentials ==
    /\ cframe.pc = "validate_credentials"
    /\ IF CredentialsInvalid(conn.credentials)
       THEN Raise("InvalidCredentialsError", "invalid_credential")
       ELSE Goto(ConnStepAfter("validate_credentials"))
    /\ UNCHANGED <<conn, nonConnVars>>

\* The handshake and self.connected = True. ConnectorBase: time.sleep() and
\* the log line. FTPConnector: self.ftp = FTP(), connect(), login(), and
\* connected is set only if validate_connection() is True, else
\* ConnectionError is raised.
ConnHandshake ==
    /\ cframe.pc = "handshake"
    /\ \E r \in {"ok"} \cup ExcTypes, valid \in BOOLEAN :
          LET ok == r = "ok" /\ (conn.class = "FTPConnector" => valid)
          IN /\ conn' = [conn EXCEPT
                           !.connected = AfterHandshake(@, ok),
                           !.ftp = IF conn.class = "FTPConnector" THEN TRUE ELSE @]
             /\ IF ok THEN Goto(ConnStepAfter("handshake"))
                ELSE Raise(IF r = "ok" THEN "Exception" ELSE r, "handshake")
    /\ UNCHANGED nonConnVars

\* self.post_connect_hook()
ConnPostHook ==
    /\ cframe.pc = "post_hook"
    /\ \/ Goto(ConnStepAfter("post_hook"))
       \/ \E e \in ExcTypes : Raise(e, "post_hook")
    /\ UNCHANGED <<conn, nonConnVars>>

\* The try block of disconnect(): the teardown (session.close(), or
\* ftp.quit() when self.ftp is set), then self.connected = False.
ConnTeardown ==
    /\ cframe.pc = "teardown"
    /\ \/ /\ conn' = [conn EXCEPT !.connected = FALSE]
          /\ Goto("returned")
       \/ /\ conn.class = "FTPConnector" => conn.ftp
          /\ Raise("Exception", "teardown")
          /\ UNCHANGED conn
    /\ UNCHANGED nonConnVars

\* The except blocks: connect() re-raises; disconnect() re-raises, after
\* self.connected = False in ConnectorBase.
ConnExcept ==
    /\ cframe.pc = "except"
    /\ IF cframe.op = "connect"
       THEN /\ cframe' = [cframe EXCEPT !.pc = "raised",
                                        !.exc = Reraise(conn.class, @)]
            /\ UNCHANGED conn
       ELSE /\ cframe' = [cframe EXCEPT !.pc = "raised"]
            /\ conn' = [conn EXCEPT
                          !.connected = AfterTeardownError(conn.class, @)]
    /\ UNCHANGED nonConnVars

\* The call hands control back to its caller.
ConnReturn ==
    /\ cframe.pc \in {"returned", "raised"}
    /\ cframe' = NoCall
    /\ UNCHANGED <<conn, nonConnVars>>

InitConn ==
    /\ task_kind = [i \in Tasks |-> "TaskBase"]
    /\ task_connectors = [i \in Tasks |-> 0]
    /\ task_tools = [i \in Tasks |-> 0]
    /\ retry_attempts = [i \in Tasks |-> DefaultRetryAttempts]
    /\ InitTaskIdle
    /\ connected = [c \in Connectors |-> FALSE]
    /\ notifiable = [c \in Connectors |-> FALSE]
    /\ InitWorkflowIdle
    /\ conn \in {NewConnector(class) : class \in ConnClasses}
    /\ cframe = NoCall
    /\ InitListenIdle
    /\ InitFluxIdle
    /\ InitCompIdle

NextConn ==
    \/ \E op \in {"connect", "disconnect"} : ConnCall(op)
    \/ ConnPreHook
    \/ ConnValidateParameters
    \/ ConnLoadCredentials
    \/ ConnValidateCredentials
    \/ ConnHandshake
    \/ ConnPostHook
    \/ ConnTeardown
    \/ ConnExcept
    \/ ConnReturn

SpecConn == InitConn /\ [][NextConn]_vars

\* ============================== claims on connect() and disconnect()
\* C8: after disconnect() on a connected connector, connected is false,
\* whether the teardown succeeded or raised.
C8_DisconnectClears ==
    (/\ cframe.op = "disconnect"
     /\ cframe.before
     /\ cframe.pc \in {"returned", "raised"})
    => ~conn.connected

\* The steps of connect() that come before self.connected = True.
StepsBeforeConnected ==
    {"null_parameter", "missing_credential", "invalid_credential", "handshake"}

\* C9: connect() on a connector that is not connected: if parameter
\* validation, credential loading, credential validation or the handshake
\* fails, connect() raises (it does not return) and connected is still false;
\* connect() returns only with connected true.
C9_FailedConnectStaysDisconnected ==
    /\ (/\ cframe.op = "connect"
        /\ ~cframe.before
        /\ cframe.cause \in StepsBeforeConnected)
       => /\ ~conn.connected
          /\ cframe.pc \in {"except", "raised"}
    /\ (cframe.op = "connect" /\ cframe.pc = "returned")
       => (cframe.cause = "none" /\ conn.connected)

\* C9 witness: connect() has raised out of a failed handshake, the
\* credentials having been loaded and validated; connected is false.
C9_Witness ==
    /\ cframe.op = "connect"
    /\ cframe.pc = "raised"
    /\ cframe.cause = "handshake"
    /\ conn.credentials # <<>>
    /\ ~conn.connected

\* C10: ConnectorBase.connect() re-raises a failure caused by a null
\* parameter, a missing credential or a structurally invalid credential as
\* InvalidCredentialsError, and a failure of the handshake or of a hook that
\* is not a ValueError as ConnectionFailedError.
C10_ErrorClassification ==
    (/\ conn.class = "ConnectorBase"
     /\ cframe.op = "connect"
     /\ cframe.pc = "raised")
    => /\ cframe.cause \in {"null_parameter", "missing_credential",
                            "invalid_credential"}
          => cframe.exc = "InvalidCredentialsError"
       /\ (/\ cframe.cause \in {"pre_hook", "handshake", "post_hook"}
           /\ cframe.orig # "ValueError")
          => cframe.exc = "ConnectionFailedError"


\* ============================== further claims on run()
\* C11: when run() returns, state is Completed or Failed, and it is Completed
\* exactly when the connect phase succeeded and no exception escaped the
\* task loop, the tool loop, the notify phase or the callback.
C11_FinalState ==
    wpc = "done"
    => /\ state \in {"Completed", "Failed"}
       /\ state = "Completed" <=> (hist.connect = "ok" /\ hist.raised = "none")

\* C11 witness: run() has returned Failed after a connect phase that
\* succeeded, because the callback raised once the state was Completed.
C11_Witness ==
    /\ wpc = "done"
    /\ hist.connect = "ok"
    /\ hist.raised = "callback"
    /\ state = "Failed"

\* C12: in the connect phase, connect() is not called on a connector whose
\* validate_connection() returned False.
C12_InvalidConnectorSkipped ==
    \A c \in clog.invalid : clog.calls[c] = 0

\* C13: the connect phase attempts the connectors one at a time in
\* registration order: connect() is called at most 3 times on a connector and
\* never again after the call that returned; a connector is attempted only
\* when every connector before it has succeeded, and one or two failures of a
\* connector do not end its turn; when the phase ends well every connector has
\* succeeded, and when it aborts the run some connector has failed 3 calls
\* in a row, after which no later connector was attempted.
C13_ConnectRetryProtocol ==
    /\ \A c \in Connectors :
          /\ clog.calls[c] <= 3
          /\ clog.ok_at[c] # 0 => clog.calls[c] = clog.ok_at[c]
          /\ clog.calls[c] > 0 => \A b \in 1..(c - 1) : clog.ok_at[b] # 0
    /\ (wpc = "connect" /\ wi \in Connectors)
       => /\ \A b \in 1..(wi - 1) : clog.ok_at[b] # 0
          /\ clog.ok_at[wi] = 0
          /\ clog.calls[wi] = wattempt
          /\ \A b \in (wi + 1)..NumConnectors : clog.calls[b] = 0
    /\ (wpc = "connect" /\ wi > NumConnectors)
       => \A c \in Connectors : clog.ok_at[c] # 0
    /\ (wpc = "done" /\ hist.connect = "exhausted")
       => \E c \in Connectors :
             /\ clog.calls[c] = 3
             /\ clog.ok_at[c] = 0
             /\ \A b \in (c + 1)..NumConnectors : clog.calls[b] = 0

\* C13 witness: the first connector failed twice and succeeded on its third
\* call, the second connector then failed 3 calls and the run was aborted.
C13_Witness ==
    /\ wpc = "done"
    /\ hist.connect = "exhausted"
    /\ clog.ok_at[1] = 3
    /\ clog.calls[2] = 3
    /\ clog.ok_at[2] = 0

\* C14: a notify() that raises is not fatal: when run() returns after a
\* connect phase that succeeded and a notify() that raised, the state is
\* Completed.
C14_NotifyNonFatal ==
    (wpc = "done" /\ hist.connect = "ok" /\ hist.raised = "notify")
    => state = "Completed"

\* C15: a tool whose validate() did not return True is never run; a tool
\* whose validate() or run() raised does not stop the tool loop (the state
\* stays Running and the next tool is taken), the notify phase is reached
\* with every valid tool run, and the run still ends Completed unless a
\* notify() or the callback raised.
C15_ToolFailureIsolated ==
    /\ toollog.run = toollog.valid
    /\ toollog.valid \cup toollog.raised \subseteq Tools
    /\ wpc = "tools"
       => /\ state = "Running"
          /\ toollog.valid \cup toollog.raised \subseteq 1..(wi - 1)
    /\ (wpc = "outer_except" \/ (wpc = "done" /\ state = "Failed"))
       => (hist.connect # "ok" \/ hist.raised # "none")
    /\ (wpc = "done" /\ hist.connect = "ok" /\ hist.raised = "none")
       => state = "Completed"

\* C15 witness: the first tool raised, the second tool was then validated and
\* run, and run() has returned Completed.
C15_Witness ==
    /\ wpc = "done"
    /\ state = "Completed"
    /\ 1 \in toollog.raised
    /\ 2 \in toollog.run
    /\ 2 \notin toollog.raised

\* The positions of run() before the task loop, and those before the state
\* is set to Completed.
ConnectPhase == {"validate_connections", "connect"}

BeforeCompleted == ConnectPhase \cup {"tasks", "in_task", "tools", "notify"}

C17_TasksInOrder ==
    /\ (tcur # 0 /\ tcaller = "workflow")
       => (wpc = "in_task" /\ tcur = wi)
    /\ wpc = "in_task"
       => /\ tcur = wi
          /\ hist.validated = 1..wi
          /\ hist.executed = ValidTasks \cap 1..(wi - 1)
    /\ wpc = "tasks"
       => /\ tpc = "idle"
          /\ hist.validated = 1..(wi - 1)
          /\ hist.executed = ValidTasks \cap 1..(wi - 1)
    /\ wpc \in {"tools", "notify", "callback"}
       => (tpc = "idle" /\ hist.executed = ValidTasks)

\* C17 witness: the second task is being executed, after the first task
\* failed its 3 attempts with their sleeps and its execute() returned.
C17_Witness ==
    /\ wpc = "in_task"
    /\ tcur = 2
    /\ tpc = "body"
    /\ task_kind[1] = "TaskBase"
    /\ task_state[1] = "failed"
    /\ hist.executed = {1}


\* ============================== further claims on execute()
\* C18: when validate() of a TaskBase returns False (no bound connector),
\* execute() goes from the validation straight to its return: it never
\* enters the retry loop, so no hook, no connect() and no tool run() is
\* called and no attempt or sleep takes place, the state never becomes
\* running, and it returns with the state validation_failed.
C18_ValidationGate ==
    (/\ tcur # 0
     /\ task_kind[tcur] = "TaskBase"
     /\ ~TaskValidateResult(tcur))
    => /\ tpc \in {"validate", "returned"}
       /\ attempt = 0
       /\ AttemptsAndSleeps = <<>>
       /\ CountOf(tlog, {"running", "retrying"}) = 0
       /\ \A c \in Connectors : ~connected[c]
       /\ tpc = "returned"
          => /\ task_state[tcur] = "validation_failed"
             /\ StateTrace(tlog) = <<"starting", "validation_failed">>

\* C18 witness: execute() of a TaskBase without connectors, with tools and
\* with attempts to spend, has returned in state validation_failed.
C18_Witness ==
    /\ tcur # 0
    /\ tpc = "returned"
    /\ task_kind[tcur] = "TaskBase"
    /\ task_connectors[tcur] = 0
    /\ task_tools[tcur] > 0
    /\ retry_attempts[tcur] = MaxRetryAttempts
    /\ task_state[tcur] = "validation_failed"


\* ============================== Workflow.listen() and the listeners
\* The listener classes followed: one that polls, one that receives.
ListenerKinds == {"LocalFolderListener", "WebhookListener"}

\* A listener as its constructor leaves it: self.running = False,
\* self.thread = None (start() not called), no event observed or handled, no
\* run() or callback invoked by it, no stop() returned. thread is the position
\* of the background thread: "none", "spawned" (started, first statement not
\* yet executed), "check" (at the loop condition), "poll", "handle", "sleep",
\* "exited".
NewListener(kind) ==
    [kind |-> kind, started |-> 0, thread |-> "none", running |-> FALSE,
     observed |-> 0, handled |-> 0, triggered |-> 0, stopped |-> 0]

\* The listeners whose thread is a polling loop over self.running; the thread
\* of WebhookListener is app.run(), which serves until the process ends.
PollKinds == {"LocalFolderListener"}

\* The listeners a workflow may be built with.
ListenerLists ==
    UNION {[1..n -> {NewListener(k) : k \in ListenerKinds}] : n \in 0..NumListeners}

\* listen() with its fallback to run() dropped.
ListenBranch_AlwaysStarts(n) == "start"

\* if not self.listeners: self.run(), else: start every listener
ListenBranch(n) == IF n = 0 THEN "run" ELSE "start"

\* What the handler of a newly detected item or of a received webhook does
\* besides logging it: neither monitor_folder() nor handle_webhook() calls
\* on_event(), Workflow.run() or a callback.
HandlerInvokesRun(kind) == FALSE

\* listener.name, which listen() reads for its log line after start(): the
\* listener classes set no name themselves; their base class AutomationListener
\* is a component, and a component has a name.
ListenerHasName(kind) == TRUE

\* listen() is called on the workflow.
ListenCall ==
    /\ lframe.pc = "idle"
    /\ lframe.calls = 0
    /\ wpc = "idle"
    /\ lframe' = [lframe EXCEPT !.pc = ListenBranch(Len(listeners)),
                                !.i = 1, !.calls = @ + 1]
    /\ UNCHANGED <<listeners, taskCfg, task_state, taskFrame, connected, wfVars,
                   connVars, fluxVars, compVars>>

\* self.run(): listen() calls run() and waits for it.
ListenRun ==
    /\ lframe.pc = "run"
    /\ WfRun("none", MaxRuns)
    /\ lframe' = [lframe EXCEPT !.pc = "in_run", !.run_calls = @ + 1]
    /\ UNCHANGED <<listeners, fluxVars, compVars>>

\* run() has returned to listen().
ListenRunDone ==
    /\ lframe.pc = "in_run"
    /\ wpc = "idle"
    /\ lframe' = [lframe EXCEPT !.pc = "returned"]
    /\ UNCHANGED <<listeners, taskCfg, task_state, taskFrame, connected, wfVars,
                   connVars, fluxVars, compVars>>

\* for listener in self.listeners: listener.start(), which spawns the
\* daemon thread of the listener and returns, then the log line.
ListenStartListener ==
    /\ lframe.pc = "start"
    /\ IF lframe.i <= Len(listeners)
       THEN /\ listeners' = [listeners EXCEPT
                               ![lframe.i].started = @ + 1,
                               ![lframe.i].thread = "spawned"]
            /\ lframe' = IF ListenerHasName(listeners[lframe.i].kind)
                         THEN [lframe EXCEPT !.i = @ + 1]
                         ELSE [lframe EXCEPT !.pc = "raised"]
       ELSE /\ lframe' = [lframe EXCEPT !.pc = "returned"]
            /\ UNCHANGED listeners
    /\ UNCHANGED <<taskCfg, task_state, taskFrame, connected, wfVars, connVars, fluxVars, compVars>>

\* listen() or stop_listeners() returns to its caller, or listen() leaves
\* with the exception.
ListenReturn ==
    /\ lframe.pc \in {"returned", "raised", "stop_returned"}
    /\ lframe' = [lframe EXCEPT !.pc = "idle", !.i = 0]
    /\ UNCHANGED <<listeners, taskCfg, task_state, taskFrame, connected, wfVars,
                   connVars, fluxVars, compVars>>

\* The first statements of the thread: monitor_folder() sets
\* self.running = True and goes to its loop condition; run_server() enters
\* app.run().
MonitorBegin(l) ==
    /\ l <= Len(listeners)
    /\ listeners[l].thread = "spawned"
    /\ listeners' = [listeners EXCEPT
                       ![l].running = IF listeners[l].kind \in PollKinds
                                      THEN TRUE ELSE @,
                       ![l].thread = "check"]
    /\ UNCHANGED <<lframe, taskCfg, task_state, taskFrame, connected, wfVars,
                   connVars, fluxVars, compVars>>

\* while self.running: one more turn of the loop, or the end of the thread.
\* The server loop of app.run() has no such condition.
LoopCondition(kind, running) == kind \notin PollKinds \/ running

MonitorCheck(l) ==
    /\ l <= Len(listeners)
    /\ listeners[l].thread = "check"
    /\ listeners' = [listeners EXCEPT ![l].thread =
                       IF LoopCondition(listeners[l].kind, listeners[l].running)
                       THEN "poll" ELSE "exited"]
    /\ UNCHANGED <<lframe, taskCfg, task_state, taskFrame, connected, wfVars,
                   connVars, fluxVars, compVars>>

\* The background thread of listener l polls: monitor_folder() lists the
\* folder and finds a new file or none (the Flask server receives a POST or
\* none); with nothing new it goes to sleep.
MonitorPoll(l) ==
    /\ l <= Len(listeners)
    /\ listeners[l].thread = "poll"
    /\ \E new \in BOOLEAN :
          listeners' =
             IF new /\ listeners[l].observed < MaxEvents
             THEN [listeners EXCEPT ![l].observed = @ + 1, ![l].thread = "handle"]
             ELSE [listeners EXCEPT ![l].thread = "sleep"]
    /\ UNCHANGED <<lframe, taskCfg, task_state, taskFrame, connected, wfVars,
                   connVars, fluxVars, compVars>>

\* The thread handles the observed event: it logs it (and adds the file to
\* known_files, or answers 200), and that is all.
MonitorHandle(l) ==
    /\ l <= Len(listeners)
    /\ listeners[l].thread = "handle"
    /\ listeners' = [listeners EXCEPT
                       ![l].handled = @ + 1,
                       ![l].triggered = IF HandlerInvokesRun(listeners[l].kind)
                                        THEN @ + 1 ELSE @,
                       ![l].thread = "sleep"]
    /\ UNCHANGED <<lframe, taskCfg, task_state, taskFrame, connected, wfVars,
                   connVars, fluxVars, compVars>>

\* time.sleep(self.polling_interval), then back to the loop condition.
MonitorSleep(l) ==
    /\ l <= Len(listeners)
    /\ listeners[l].thread = "sleep"
    /\ listeners' = [listeners EXCEPT ![l].thread = "check"]
    /\ UNCHANGED <<lframe, taskCfg, task_state, taskFrame, connected, wfVars,
                   connVars, fluxVars, compVars>>

\* stop_listeners() is called on the workflow, before or after listen().
StopListenersCall ==
    /\ lframe.pc = "idle"
    /\ lframe.stop_calls = 0
    /\ wpc = "idle"
    /\ lframe' = [lframe EXCEPT !.pc = "stop", !.i = 1, !.stop_calls = @ + 1]
    /\ UNCHANGED <<listeners, taskCfg, task_state, taskFrame, connected, wfVars,
                   connVars, fluxVars, compVars>>

\* for listener in self.listeners: listener.stop(), up to its join():
\* self.running = False (LocalFolderListener), then if self.thread: join.
\* With no thread (start() never called) stop() returns at once.
StopListener ==
    /\ lframe.pc = "stop"
    /\ IF lframe.i <= Len(listeners)
       THEN /\ listeners' = [listeners EXCEPT ![lframe.i].running =
                               IF listeners[lframe.i].kind \in PollKinds
                               THEN FALSE ELSE @]
            /\ lframe' = IF listeners[lframe.i].thread # "none"
                         THEN [lframe EXCEPT !.pc = "join"]
                         ELSE [lframe EXCEPT !.i = @ + 1]
       ELSE /\ lframe' = [lframe EXCEPT !.pc = "stop_returned"]
            /\ UNCHANGED listeners
    /\ UNCHANGED <<taskCfg, task_state, taskFrame, connected, wfVars, connVars, fluxVars, compVars>>

\* stop() returning without waiting for the thread.
JoinReturns_NoWait(thread) == TRUE

\* self.thread.join() returns when the thread has ended.
JoinReturns(thread) == thread = "exited"

\* The join() of stop() returns, stop() returns (a stop() made after
\* start(): stopped counts these), and the loop goes to the next listener.
StopJoin ==
    /\ lframe.pc = "join"
    /\ JoinReturns(listeners[lframe.i].thread)
    /\ listeners' = [listeners EXCEPT ![lframe.i].stopped = @ + 1]
    /\ lframe' = [lframe EXCEPT !.pc = "stop", !.i = @ + 1]
    /\ UNCHANGED <<taskCfg, task_state, taskFrame, connected, wfVars, connVars, fluxVars, compVars>>

\* A workflow built with 0..NumListeners listeners, and with tasks of any
\* class bound to the first connector.
InitListen ==
    /\ task_kind \in [Tasks -> TaskKinds]
    /\ task_connectors = [i \in Tasks |-> 1]
    /\ task_tools = [i \in Tasks |-> 0]
    /\ retry_attempts = [i \in Tasks |-> DefaultRetryAttempts]
    /\ InitTaskIdle
    /\ connected = [c \in Connectors |-> FALSE]
    /\ notifiable \in [Connectors -> BOOLEAN]
    /\ InitWorkflowIdle
    /\ InitConnIdle
    /\ listeners \in ListenerLists
    /\ lframe = NoListen
    /\ InitFluxIdle
    /\ InitCompIdle

\* The steps of listen() itself.
ListenStep ==
    \/ ListenRun
    \/ ListenRunDone
    \/ ListenStartListener
    \/ ListenReturn

NextListen ==
    \/ ListenCall
    \/ ListenStep
    \/ WfStep
    \/ \E l \in 1..NumListeners : MonitorBegin(l)
    \/ \E l \in 1..NumListeners : MonitorCheck(l)
    \/ \E l \in 1..NumListeners : MonitorPoll(l)
    \/ \E l \in 1..NumListeners : MonitorHandle(l)
    \/ \E l \in 1..NumListeners : MonitorSleep(l)

\* The calls in progress go on and every started thread keeps running its
\* loop; whether listen() is called and whether events arrive is left open.
FairListen ==
    /\ WF_vars(ListenStep)
    /\ WF_vars(WfStep)
    /\ \A l \in 1..NumListeners :
          /\ WF_vars(MonitorBegin(l))
          /\ WF_vars(MonitorCheck(l))
          /\ WF_vars(MonitorPoll(l))
          /\ WF_vars(MonitorHandle(l))
          /\ WF_vars(MonitorSleep(l))

SpecListen == InitListen /\ [][NextListen]_vars /\ FairListen

\* The same workflow with a caller that also calls stop_listeners(), once,
\* before, after or without listen().
NextStop ==
    \/ NextListen
    \/ StopListenersCall
    \/ StopListener
    \/ StopJoin

SpecStop == InitListen /\ [][NextStop]_vars

C19_WitnessFallback ==
    /\ lframe.pc = "returned"
    /\ Len(listeners) = 0
    /\ lframe.run_calls = 1
    /\ state = "Completed"

\* C20: every event a started listener observes eventually leads to an
\* invocation of Workflow.run() or of a callback by that listener.
C20_EventLeadsToRun ==
    \A l \in 1..NumListeners :
       (l <= Len(listeners) /\ listeners[l].observed > 0)
       ~> (l <= Len(listeners) /\ listeners[l].triggered > 0)

\* C21: once a stop() made after start() has returned on a polling listener,
\* its thread has ended and no new-item handler of that listener is invoked
\* any more, under every interleaving of the caller with the thread.
C21_StopGuarantee ==
    [][\A l \in 1..Len(listeners) :
          (listeners[l].kind \in PollKinds /\ listeners[l].stopped > 0)
          => /\ listeners[l].thread = "exited"
             /\ listeners'[l].thread = "exited"
             /\ listeners'[l].handled = listeners[l].handled
             /\ listeners'[l].observed = listeners[l].observed]_vars

\* C21 witness: a polling listener was started, handled a new item, and
\* stop() then returned on it.
C21_Witness ==
    \E l \in 1..Len(listeners) :
       /\ listeners[l].kind \in PollKinds
       /\ listeners[l].started = 1
       /\ listeners[l].handled > 0
       /\ listeners[l].stopped > 0

\* ============================== Flux.run() and the async Task.execute()
TriggerModes == {"manual", "auto"}

\* What a tool's execute() may return.
Values == {"None", "a", "b"}

FluxTasks == 1..NumTasks
Triggers == 1..NumTriggers

\* Task(name, connectors, tools, triggers) as constructed, with what run()
\* did to it so far: per trigger the activate() and deactivate() calls made
\* and whether it is active, the execute() calls started, and how the last
\* execute() ended ("none", "returned", "raised").  schedule says that the
\* task's triggers are ScheduleTriggers, callback how the last call of a
\* ScheduleTrigger's callback ended ("none", "returned", "raised").
NewFluxTask(triggers, connectors, tools, schedule) ==
    [triggers |-> triggers, connectors |-> connectors, tools |-> tools,
     schedule |-> schedule, callback |-> "none",
     activated |-> [k \in Triggers |-> 0],
     deactivated |-> [k \in Triggers |-> 0],
     active |-> [k \in Triggers |-> FALSE],
     executes |-> 0, outcome |-> "none"]

\* Every trigger walked whatever the mode.
TriggersToWalk_IgnoresMode(mode, n) == n

\* if self.trigger_mode == "auto": for trigger in task.triggers
TriggersToWalk(mode, n) == IF mode = "auto" THEN n ELSE 0

\* The body of the loop with execute() before the activation.
FluxPhaseAfter_ExecuteFirst(phase) ==
    CASE phase = "task" -> "execute"
      [] phase = "in_execute" -> "activate"
      [] phase = "activate" -> "deactivate"
      [] phase = "deactivate" -> "task"

\* The body of the loop over self.tasks: activation, execute(),
\* deactivation, next task.
FluxPhaseAfter(phase) ==
    CASE phase = "task" -> "activate"
      [] phase = "activate" -> "execute"
      [] phase = "in_execute" -> "deactivate"
      [] phase = "deactivate" -> "task"

\* Flux.run(): asyncio.run(self._execute_tasks())
FluxRun ==
    /\ flux.pc = "idle"
    /\ flux.calls = 0
    /\ flux' = [flux EXCEPT !.pc = "task", !.i = 1, !.calls = @ + 1]
    /\ UNCHANGED <<ftask, fexec>>
    /\ UNCHANGED <<taskCfg, task_state, taskFrame, connected, wfVars, connVars,
                   lsnVars, compVars>>

\* for task in self.tasks: the next task, or the end of the loop, after
\* which _execute_tasks() and run() return.
FluxTask ==
    /\ flux.pc = "task"
    /\ flux' = IF flux.i <= Len(ftask)
               THEN [flux EXCEPT !.pc = FluxPhaseAfter("task"), !.k = 1]
               ELSE [flux EXCEPT !.pc = "done"]
    /\ UNCHANGED <<ftask, fexec>>
    /\ UNCHANGED <<taskCfg, task_state, taskFrame, connected, wfVars, connVars,
                   lsnVars, compVars>>

\* await trigger.activate() for each trigger of the task in auto mode; the
\* call returns, leaving the trigger active, or raises.  The activate() of a
\* ScheduleTrigger sets _active and enters its loop `while self._active`.
FluxActivate ==
    /\ flux.pc = "activate"
    /\ IF flux.k <= TriggersToWalk(flux.mode, ftask[flux.i].triggers)
       THEN IF ftask[flux.i].schedule
            THEN /\ ftask' = [ftask EXCEPT
                                ![flux.i].activated[flux.k] = @ + 1,
                                ![flux.i].active[flux.k] = TRUE]
                 /\ flux' = [flux EXCEPT !.pc = "schedule_callback"]
            ELSE \E raised \in BOOLEAN :
               /\ ftask' = [ftask EXCEPT
                              ![flux.i].activated[flux.k] = @ + 1,
                              ![flux.i].active[flux.k] = IF raised THEN @ ELSE TRUE]
               /\ flux' = IF raised
                          THEN [flux EXCEPT !.pc = "except", !.cause = "activate"]
                          ELSE [flux EXCEPT !.k = @ + 1]
       ELSE /\ flux' = [flux EXCEPT !.pc = FluxPhaseAfter("activate")]
            /\ UNCHANGED ftask
    /\ UNCHANGED fexec
    /\ UNCHANGED <<taskCfg, task_state, taskFrame, connected, wfVars, connVars,
                   lsnVars, compVars>>

\* ScheduleTrigger.activate(), the body of the loop: `if self.callback:
\* await self.callback()`; there is no callback, or it returns or raises.
ScheduleCallback ==
    /\ flux.pc = "schedule_callback"
    /\ \E outcome \in {"none", "returned", "raised"} :
          /\ ftask' = [ftask EXCEPT ![flux.i].callback =
                                       IF outcome = "none" THEN @ ELSE outcome]
          /\ flux' = IF outcome = "raised"
                     THEN [flux EXCEPT !.pc = "except", !.cause = "activate"]
                     ELSE [flux EXCEPT !.pc = "schedule_sleep"]
    /\ UNCHANGED fexec
    /\ UNCHANGED <<taskCfg, task_state, taskFrame, connected, wfVars, connVars,
                   lsnVars, compVars>>

\* ScheduleTrigger.activate(): `await asyncio.sleep(...)`.  The module does
\* not import asyncio, so evaluating the name raises NameError, which leaves
\* activate() with _active still set.
ScheduleSleep ==
    /\ flux.pc = "schedule_sleep"
    /\ flux' = [flux EXCEPT !.pc = "except", !.cause = "activate"]
    /\ UNCHANGED <<ftask, fexec>>
    /\ UNCHANGED <<taskCfg, task_state, taskFrame, connected, wfVars, connVars,
                   lsnVars, compVars>>

\* result = await task.execute(): the call starts.
FluxExecute ==
    /\ flux.pc = "execute"
    /\ flux' = [flux EXCEPT !.pc = "in_execute"]
    /\ ftask' = [ftask EXCEPT ![flux.i].executes = @ + 1]
    /\ fexec' = [NoExec EXCEPT !.pc = "pre_execute"]
    /\ UNCHANGED <<taskCfg, task_state, taskFrame, connected, wfVars, connVars,
                   lsnVars, compVars>>

\* task.execute() has returned or raised.
FluxExecuteDone ==
    /\ flux.pc = "in_execute"
    /\ fexec.pc \in {"returned", "raised"}
    /\ ftask' = [ftask EXCEPT ![flux.i].outcome = fexec.pc]
    /\ flux' = IF fexec.pc = "raised"
               THEN [flux EXCEPT !.pc = "except", !.cause = "execute"]
               ELSE [flux EXCEPT !.pc = FluxPhaseAfter("in_execute"), !.k = 1]
    /\ fexec' = NoExec
    /\ UNCHANGED <<taskCfg, task_state, taskFrame, connected, wfVars, connVars,
                   lsnVars, compVars>>

\* await trigger.deactivate() for each trigger of the task in auto mode,
\* then the next task.
FluxDeactivate ==
    /\ flux.pc = "deactivate"
    /\ IF flux.k <= TriggersToWalk(flux.mode, ftask[flux.i].triggers)
       THEN \E raised \in BOOLEAN :
               /\ ftask' = [ftask EXCEPT
                              ![flux.i].deactivated[flux.k] = @ + 1,
                              ![flux.i].active[flux.k] = IF raised THEN @ ELSE FALSE]
               /\ flux' = IF raised
                          THEN [flux EXCEPT !.pc = "except", !.cause = "deactivate"]
                          ELSE [flux EXCEPT !.k = @ + 1]
       ELSE /\ flux' = [flux EXCEPT !.pc = FluxPhaseAfter("deactivate"),
                                   !.i = @ + 1]
            /\ UNCHANGED ftask
    /\ UNCHANGED fexec
    /\ UNCHANGED <<taskCfg, task_state, taskFrame, connected, wfVars, connVars,
                   lsnVars, compVars>>

\* except Exception as e: log, raise; the exception leaves the loop and
\* _execute_tasks(), and run() logs it and raises it again.
FluxExcept ==
    /\ flux.pc = "except"
    /\ flux' = [flux EXCEPT !.pc = "done"]
    /\ UNCHANGED <<ftask, fexec>>
    /\ UNCHANGED <<taskCfg, task_state, taskFrame, connected, wfVars, connVars,
                   lsnVars, compVars>>

\* Leaving the try block of Task.execute() with an exception: the finally
\* block runs with the exception pending.
ExecRaise(f) == [f EXCEPT !.pc = "cleanup", !.j = 1, !.sub = 1, !.pending = TRUE]

\* await self.pre_execute(), before the try block: an exception leaves
\* execute() at once.
ExecPreExecute ==
    /\ fexec.pc = "pre_execute"
    /\ \E raised \in BOOLEAN :
          fexec' = IF raised
                   THEN [fexec EXCEPT !.pc = "raised", !.exc = "pre_execute"]
                   ELSE [fexec EXCEPT !.pc = "connect", !.j = 1, !.sub = 1]
    /\ UNCHANGED <<flux, ftask>>
    /\ UNCHANGED <<taskCfg, task_state, taskFrame, connected, wfVars, connVars,
                   lsnVars, compVars>>

\* for connector in self.connectors: initialize(), pre_connect(), connect(),
\* post_connect(), one await at a time.
ExecConnect ==
    /\ fexec.pc = "connect"
    /\ IF fexec.j <= ftask[flux.i].connectors
       THEN \E raised \in BOOLEAN :
               fexec' = IF raised THEN ExecRaise(fexec)
                        ELSE [fexec EXCEPT
                                !.conns = IF fexec.sub = 3 THEN @ + 1 ELSE @,
                                !.sub = IF fexec.sub = 4 THEN 1 ELSE @ + 1,
                                !.j = IF fexec.sub = 4 THEN @ + 1 ELSE @]
       ELSE fexec' = [fexec EXCEPT !.pc = "tool_init", !.j = 1]
    /\ UNCHANGED <<flux, ftask>>
    /\ UNCHANGED <<taskCfg, task_state, taskFrame, connected, wfVars, connVars,
                   lsnVars, compVars>>

\* for tool in self.tools: await tool.initialize(); then result = None.
ExecToolInit ==
    /\ fexec.pc = "tool_init"
    /\ IF fexec.j <= ftask[flux.i].tools
       THEN \E raised \in BOOLEAN :
               fexec' = IF raised THEN ExecRaise(fexec)
                        ELSE [fexec EXCEPT !.j = @ + 1]
       ELSE fexec' = [fexec EXCEPT !.pc = "tool", !.j = 1, !.sub = 1,
                                   !.result = "None"]
    /\ UNCHANGED <<flux, ftask>>
    /\ UNCHANGED <<taskCfg, task_state, taskFrame, connected, wfVars, connVars,
                   lsnVars, compVars>>

\* Every tool called with None.
ToolInput_AlwaysNone(result) == "None"

\* tool.execute(result): the argument is the current value of result.
ToolInput(result) == result

\* for tool in self.tools: pre_execute(), result = execute(result),
\* post_execute(), one await at a time. The execute() call is logged with the
\* input it received, what it returned ("raised" if it raised) and the number
\* of connectors connected at that moment.
ExecTool ==
    /\ fexec.pc = "tool"
    /\ IF fexec.j <= ftask[flux.i].tools
       THEN IF fexec.sub = 2
            THEN \E out \in Values \cup {"raised"} :
                    LET f == [fexec EXCEPT !.log = Append(@,
                                 [tool |-> fexec.j,
                                  input |-> ToolInput(fexec.result),
                                  output |-> out, conns |-> fexec.conns])]
                    IN  fexec' = IF out = "raised" THEN ExecRaise(f)
                                 ELSE [f EXCEPT !.result = out, !.sub = 3]
            ELSE \E raised \in BOOLEAN :
                    fexec' = IF raised THEN ExecRaise(fexec)
                             ELSE [fexec EXCEPT
                                     !.sub = IF fexec.sub = 3 THEN 1 ELSE @ + 1,
                                     !.j = IF fexec.sub = 3 THEN @ + 1 ELSE @]
       ELSE fexec' = [fexec EXCEPT !.pc = "post_execute"]
    /\ UNCHANGED <<flux, ftask>>
    /\ UNCHANGED <<taskCfg, task_state, taskFrame, connected, wfVars, connVars,
                   lsnVars, compVars>>

\* await self.post_execute(); return result (through the finally block).
ExecPostExecute ==
    /\ fexec.pc = "post_execute"
    /\ \E raised \in BOOLEAN :
          fexec' = IF raised THEN ExecRaise(fexec)
                   ELSE [fexec EXCEPT !.pc = "cleanup", !.j = 1, !.sub = 1]
    /\ UNCHANGED <<flux, ftask>>
    /\ UNCHANGED <<taskCfg, task_state, taskFrame, connected, wfVars, connVars,
                   lsnVars, compVars>>

\* The awaits of the body of the finally loop, in order.
CleanupSteps == <<"pre_disconnect", "disconnect", "post_disconnect">>

\* finally: for connector in self.connectors: pre_disconnect(), disconnect(),
\* post_disconnect(). An exception here leaves execute() at once; at the end
\* of the block execute() returns result or raises the pending exception.
ExecCleanup ==
    /\ fexec.pc = "cleanup"
    /\ IF fexec.j <= ftask[flux.i].connectors
       THEN \E raised \in BOOLEAN :
               LET f == [fexec EXCEPT !.dlog = Append(@,
                            <<fexec.j, CleanupSteps[fexec.sub]>>)]
               IN  fexec' =
                      IF raised
                      THEN [f EXCEPT !.pc = "raised", !.exc = "cleanup"]
                      ELSE [f EXCEPT
                              !.conns = IF fexec.sub = 2 /\ @ > 0
                                        THEN @ - 1 ELSE @,
                              !.sub = IF fexec.sub = 3 THEN 1 ELSE @ + 1,
                              !.j = IF fexec.sub = 3 THEN @ + 1 ELSE @]
       ELSE fexec' = IF fexec.pending
                     THEN [fexec EXCEPT !.pc = "raised", !.exc = "body"]
                     ELSE [fexec EXCEPT !.pc = "returned"]
    /\ UNCHANGED <<flux, ftask>>
    /\ UNCHANGED <<taskCfg, task_state, taskFrame, connected, wfVars, connVars,
                   lsnVars, compVars>>

\* A Flux in either mode with NumTasks tasks; each task has its own number of
\* triggers, which are ScheduleTriggers or not, and the tasks have the same
\* number of connectors and of tools.
InitFlux ==
    /\ task_kind = [i \in Tasks |-> "TaskBase"]
    /\ task_connectors = [i \in Tasks |-> 0]
    /\ task_tools = [i \in Tasks |-> 0]
    /\ retry_attempts = [i \in Tasks |-> DefaultRetryAttempts]
    /\ InitTaskIdle
    /\ connected = [c \in Connectors |-> FALSE]
    /\ notifiable = [c \in Connectors |-> FALSE]
    /\ InitWorkflowIdle
    /\ InitConnIdle
    /\ InitListenIdle
    /\ \E mode \in TriggerModes : flux = [NoFlux EXCEPT !.mode = mode]
    /\ \E trg \in [FluxTasks -> 0..NumTriggers], c \in 0..NumConnectors,
          t \in 0..NumTools, sch \in [FluxTasks -> BOOLEAN] :
          /\ \A i \in FluxTasks : sch[i] => trg[i] > 0
          /\ ftask = [i \in FluxTasks |-> NewFluxTask(trg[i], c, t, sch[i])]
    /\ fexec = NoExec
    /\ InitCompIdle

NextFlux ==
    \/ FluxRun
    \/ FluxTask
    \/ FluxActivate
    \/ ScheduleCallback
    \/ ScheduleSleep
    \/ FluxExecute
    \/ FluxExecuteDone
    \/ FluxDeactivate
    \/ FluxExcept
    \/ ExecPreExecute
    \/ ExecConnect
    \/ ExecToolInit
    \/ ExecTool
    \/ ExecPostExecute
    \/ ExecCleanup

SpecFlux == InitFlux /\ [][NextFlux]_vars

\* ============================== claims on Flux.run()
\* C22: with trigger_mode = "manual", run() calls neither activate() nor
\* deactivate() on any trigger of any task, whatever the tasks do.
C22_ManualNoTriggerCalls ==
    flux.mode = "manual"
    => \A t \in 1..Len(ftask) : \A k \in Triggers :
          /\ ftask[t].activated[k] = 0
          /\ ftask[t].deactivated[k] = 0
          /\ ~ftask[t].active[k]

\* C22 witness: a manual run() has ended after executing a first task that
\* has triggers and a second task whose execute() raised.
C22_Witness ==
    /\ flux.mode = "manual"
    /\ flux.pc = "done"
    /\ ftask[1].triggers > 0
    /\ ftask[1].outcome = "returned"
    /\ ftask[2].outcome = "raised"

\* C23: with trigger_mode = "auto", activate() is called at most once on a
\* trigger, and when a task's execute() starts, activate() has been called
\* exactly once on each of the task's triggers and every one of these calls
\* has returned.
C23_AutoActivation ==
    flux.mode = "auto"
    => /\ \A t \in 1..Len(ftask) : \A k \in Triggers :
             /\ ftask[t].activated[k] <= 1
             /\ k > ftask[t].triggers => ftask[t].activated[k] = 0
       /\ \A t \in 1..Len(ftask) :
             ftask[t].executes > 0
             => \A k \in 1..ftask[t].triggers : ftask[t].activated[k] = 1
       /\ flux.pc \in {"execute", "in_execute"}
          => \A k \in 1..ftask[flux.i].triggers :
                /\ ftask[flux.i].activated[k] = 1
                /\ ftask[flux.i].active[k]

\* C23 witness: in auto mode the second task, with NumTriggers triggers, all
\* activated, is running its tools.
C23_Witness ==
    /\ flux.mode = "auto"
    /\ flux.pc = "in_execute"
    /\ flux.i = 2
    /\ ftask[2].triggers = NumTriggers
    /\ \A k \in Triggers : ftask[2].activated[k] = 1
    /\ fexec.pc = "tool"

\* C24: with trigger_mode = "auto", when run() has ended without an
\* activate() or deactivate() call raising, every trigger that was activated
\* has had deactivate() called exactly once and is no longer active, also
\* when the task's execute() raised.
C24_AutoDeactivation ==
    (flux.mode = "auto" /\ flux.pc = "done"
       /\ flux.cause \notin {"activate", "deactivate"})
    => \A t \in 1..Len(ftask) : \A k \in Triggers :
          ftask[t].activated[k] = 1
          => /\ ftask[t].deactivated[k] = 1
             /\ ~ftask[t].active[k]

\* C25: when run() has ended without a trigger call raising, every task has
\* been executed, also the tasks registered after one whose execute() raised.
C25_TaskIsolation ==
    (flux.pc = "done" /\ flux.cause \notin {"activate", "deactivate"})
    => \A t \in 1..Len(ftask) : ftask[t].executes = 1

\* ============================== the Workflow state machine
\* C26: state is never Paused, it leaves Ready only to Running, and it
\* leaves Running only to Completed or Failed, over any sequence of run()
\* calls on any workflow.
C26_StateMachine ==
    [][/\ state # "Paused"
       /\ state' # "Paused"
       /\ state = "Ready" => state' \in {"Ready", "Running"}
       /\ state = "Running" => state' \in {"Running", "Completed", "Failed"}]_vars

\* C26 witness: a second run() of a workflow is at its end in state Failed,
\* by its raising callback, after having been Completed.
C26_Witness ==
    /\ runs = 2
    /\ wpc = "done"
    /\ state = "Failed"
    /\ hist.raised = "callback"

\* C28: the callback is invoked with state Completed and
\* total_execution_time recorded; when it raises, the outer handler of run()
\* sets state to Failed, leaves the recorded time, and run() returns
\* normally instead of propagating the exception.
C28_CallbackRaises ==
    [][/\ (wpc = "callback" /\ callback # "none")
          => /\ state = "Completed"
             /\ metrics.total_execution_time >= 1
       /\ (wpc = "outer_except" /\ hist.raised = "callback")
          => /\ state = "Completed"
             /\ state' = "Failed"
             /\ wpc' = "done"
             /\ metrics' = metrics
       /\ (wpc = "done" /\ hist.raised = "callback")
          => /\ state = "Failed"
             /\ wpc' \in {"done", "idle"}]_vars

\* C28 witness: run() has returned to its caller in state Failed after its
\* callback raised, with the execution time of the run recorded.
C28_Witness ==
    /\ wpc = "idle"
    /\ runs = 1
    /\ hist.raised = "callback"
    /\ state = "Failed"
    /\ metrics.total_execution_time >= 1

\* ============================== the steps of connect()
\* The order of the steps of connect() the claim states.
ConnectOrder ==
    <<"pre_hook", "validate_parameters", "load_credentials",
      "validate_credentials", "handshake", "post_hook", "returned">>

\* C29: ConnectorBase.connect() starts with pre_connect_hook; each step is
\* followed by the next one of the order pre_connect_hook,
\* validate_parameters, _load_credentials, _validate_credentials, handshake
\* with connected = true, post_connect_hook, or by the except block, after
\* which no step runs; post_connect_hook starts only from the handshake and
\* with connected true.
C29_ConnectStepOrder ==
    [][(conn.class = "ConnectorBase" /\ cframe'.op = "connect"
          /\ cframe'.pc # cframe.pc)
       => /\ cframe.pc = "idle" => cframe'.pc = ConnectOrder[1]
          /\ \A n \in 1..6 :
                cframe.pc = ConnectOrder[n]
                => cframe'.pc \in {ConnectOrder[n + 1], "except"}
          /\ cframe.pc = "except" => cframe'.pc = "raised"
          /\ cframe'.pc = "post_hook"
             => /\ cframe.pc = "handshake"
                /\ conn'.connected]_vars

\* C29 witness: connect() of a ConnectorBase that was not connected returns
\* after its last step, post_connect_hook, with connected true.
C29_Witness ==
    /\ conn.class = "ConnectorBase"
    /\ cframe.op = "connect"
    /\ cframe.pc = "returned"
    /\ ~cframe.before
    /\ conn.connected

\* ============================== the state of a task during execute()
\* C27: within one TaskBase.execute() call the first value assigned to state
\* is "starting", and state never returns to a value it has left (so never
\* from "retrying" back to "running").
C27_StateMonotonic ==
    (tcur # 0 /\ task_kind[tcur] = "TaskBase")
    => LET tr == StateTrace(tlog)
       IN  /\ tr # <<>> => tr[1] = "starting"
           /\ \A a, b, c \in 1..Len(tr) :
                 (a < b /\ b < c /\ tr[a] = tr[c]) => tr[b] = tr[a]

\* ============================== claims on the async Task.execute()
\* C30: the tools are executed in list order, the first receives None, each
\* later one receives what the one before it returned, no tool is executed
\* before every bound connector has been connected, and execute() returns
\* what the last tool returned (None without tools).
C30_PipelineThreading ==
    fexec.pc # "idle"
    => LET L == fexec.log
           n == ftask[flux.i].tools
       IN  /\ \A x \in 1..Len(L) :
                 /\ L[x].tool = x
                 /\ L[x].conns = ftask[flux.i].connectors
           /\ Len(L) > 0 => L[1].input = "None"
           /\ \A x \in 1..(Len(L) - 1) : L[x + 1].input = L[x].output
           /\ fexec.pc = "returned"
              => /\ Len(L) = n
                 /\ fexec.result = IF n = 0 THEN "None" ELSE L[n].output

\* C30 witness: execute() of a task with NumConnectors connectors and two
\* tools returns after the first tool returned "a" and the second "b".
C30_Witness ==
    /\ fexec.pc = "returned"
    /\ ftask[flux.i].connectors = NumConnectors
    /\ Len(fexec.log) = 2
    /\ fexec.log[1].output = "a"
    /\ fexec.log[2].output = "b"
    /\ fexec.result = "b"

\* ============================== connected after a connect() that raised
\* C37: whenever ConnectorBase.connect() raises, whatever step raised,
\* post_connect_hook included, connected is false afterwards.
C37_RaisedConnectNotConnected ==
    (/\ conn.class = "ConnectorBase"
     /\ cframe.op = "connect"
     /\ cframe.pc = "raised")
    => ~conn.connected

\* ============================== cleanup of the async Task.execute()
\* The cleanup the claim states for a task with c connectors: for each
\* connector in list order, pre_disconnect, disconnect, post_disconnect.
FullCleanup(c) ==
    [x \in 1..(3 * c) |->
        <<((x - 1) \div 3) + 1,
          <<"pre_disconnect", "disconnect", "post_disconnect">>[((x - 1) % 3) + 1]>>]

\* C36: when execute() ends after its body (the try block) was entered,
\* disconnect() has been invoked exactly once on every bound connector, in
\* list order, each framed by pre_disconnect and post_disconnect, and if the
\* body raised, that exception is the one execute() raises.
C36_CleanupAlways ==
    (fexec.pc \in {"returned", "raised"} /\ fexec.exc # "pre_execute")
    => /\ fexec.dlog = FullCleanup(ftask[flux.i].connectors)
       /\ fexec.pending => (fexec.pc = "raised" /\ fexec.exc = "body")
       /\ ~fexec.pending => fexec.pc = "returned"

\* ============================== progress past a ScheduleTrigger
\* C33: in auto mode, when run() has ended and the first task owns
\* ScheduleTriggers whose callback did not raise, every activate() returned:
\* the task's execute() was started and run() returned.
C33_AutoProgress ==
    (/\ flux.pc \in {"done", "raised"}
     /\ flux.mode = "auto"
     /\ ftask[1].schedule
     /\ ftask[1].callback # "raised")
    => (ftask[1].executes > 0 /\ flux.pc = "done")

\* ============================== one listener, its thread and its caller
\* The listener classes followed on their own: two that poll and diff against
\* a known-items set (GoogleDriveListener, line for line the loop of
\* TrelloCardListener, and LocalFolderListener) and the one that serves.
PollerKinds == {"GoogleDriveListener", "LocalFolderListener", "WebhookListener"}

\* The classes whose thread is `while self.running:` around a poll.
LoopKinds == {"GoogleDriveListener", "LocalFolderListener"}

\* What a listing of the source can do: raise, or return the ids it holds.
PollOutcomes ==
    {[ok |-> FALSE, ids |-> {}]} \cup {[ok |-> TRUE, ids |-> r] : r \in SUBSET Items}

\* The known-items test with the set ignored.
IsNew_Always(id, known) == TRUE

\* if item['id'] not in known_files / current_files - known_files
IsNew(id, known) == id \notin known

\* start(): self.thread = threading.Thread(target=...); self.thread.start()
PollerStart ==
    /\ poller.caller = "idle"
    /\ poller' = [poller EXCEPT !.caller = "started", !.thread = "spawned"]
    /\ UNCHANGED <<taskCfg, task_state, taskFrame, connected, wfVars, connVars,
                   lsnVars, fluxVars, nonPoller>>

\* The first statements of the thread. monitor_folder(): self.running = True
\* and known_files = set() (GoogleDriveListener) or
\* known_files = set(os.listdir(...)) (LocalFolderListener), a call outside
\* the try block: when it raises the thread ends. run_server(): app.run().
PollerBegin ==
    /\ poller.thread = "spawned"
    /\ CASE poller.kind = "GoogleDriveListener" ->
              poller' = [poller EXCEPT !.running = TRUE, !.known = {},
                                       !.thread = "check"]
         [] poller.kind = "LocalFolderListener" ->
              \E listing \in PollOutcomes :
                 poller' = IF ~listing.ok
                           THEN [poller EXCEPT !.running = TRUE,
                                               !.thread = "exited"]
                           ELSE [poller EXCEPT !.running = TRUE,
                                               !.known = listing.ids,
                                               !.listed = listing.ids,
                                               !.thread = "check"]
         [] OTHER ->
              poller' = [poller EXCEPT !.thread = "serve"]
    /\ UNCHANGED <<taskCfg, task_state, taskFrame, connected, wfVars, connVars,
                   lsnVars, fluxVars, nonPoller>>

\* while self.running:
PollerCheck ==
    /\ poller.thread = "check"
    /\ poller' = [poller EXCEPT !.thread = IF poller.running THEN "poll"
                                           ELSE "exited"]
    /\ UNCHANGED <<taskCfg, task_state, taskFrame, connected, wfVars, connVars,
                   lsnVars, fluxVars, nonPoller>>

\* The poll inside the try block: it raises, which the except clause logs,
\* or it returns the ids the source holds now. GoogleDriveListener loops over
\* all of them, LocalFolderListener over current_files - known_files.
PollerPoll ==
    /\ poller.thread = "poll"
    /\ \E result \in PollOutcomes :
          poller' =
             IF ~result.ok
             THEN [poller EXCEPT !.failed = TRUE, !.thread = "sleep"]
             ELSE [poller EXCEPT
                     !.seen = @ \cup result.ids,
                     !.again = @ \/ (result.ids \cap poller.known # {}),
                     !.todo = IF poller.kind = "LocalFolderListener"
                              THEN {f \in result.ids : IsNew(f, poller.known)}
                              ELSE result.ids,
                     !.thread = "handle"]
    /\ UNCHANGED <<taskCfg, task_state, taskFrame, connected, wfVars, connVars,
                   lsnVars, fluxVars, nonPoller>>

\* One turn of the for loop over the items, or its end. GoogleDriveListener:
\* if the id is not known, known_files.add(id) and the log line of the new
\* item; LocalFolderListener: the log line, then known_files.add(new_file).
PollerHandle ==
    /\ poller.thread = "handle"
    /\ IF poller.todo = {}
       THEN poller' = [poller EXCEPT !.thread = "sleep"]
       ELSE \E id \in poller.todo :
               LET new == poller.kind = "LocalFolderListener"
                          \/ IsNew(id, poller.known)
               IN  poller' = [poller EXCEPT
                                !.todo = @ \ {id},
                                !.known = IF new THEN @ \cup {id} ELSE @,
                                !.calls[id] = IF new THEN @ + 1 ELSE @]
    /\ UNCHANGED <<taskCfg, task_state, taskFrame, connected, wfVars, connVars,
                   lsnVars, fluxVars, nonPoller>>

\* time.sleep(self.polling_interval) returns.
PollerSleep ==
    /\ poller.thread = "sleep"
    /\ poller' = [poller EXCEPT !.thread = "check"]
    /\ UNCHANGED <<taskCfg, task_state, taskFrame, connected, wfVars, connVars,
                   lsnVars, fluxVars, nonPoller>>

\* app.run() answers one more POST (handle_webhook logs it and returns 200);
\* it has no way out.
PollerServe ==
    /\ poller.thread = "serve"
    /\ poller.served < MaxItems
    /\ poller' = [poller EXCEPT !.served = @ + 1]
    /\ UNCHANGED <<taskCfg, task_state, taskFrame, connected, wfVars, connVars,
                   lsnVars, fluxVars, nonPoller>>

\* stop(), called at any point after start(): self.running = False (the
\* polling classes), then `if self.thread: self.thread.join()`.
PollerStop ==
    /\ poller.caller = "started"
    /\ poller' = [poller EXCEPT
                    !.running = IF poller.kind \in LoopKinds THEN FALSE ELSE @,
                    !.caller = "join"]
    /\ UNCHANGED <<taskCfg, task_state, taskFrame, connected, wfVars, connVars,
                   lsnVars, fluxVars, nonPoller>>

\* join() returns and so does stop().
PollerJoin ==
    /\ poller.caller = "join"
    /\ JoinReturns(poller.thread)
    /\ poller' = [poller EXCEPT !.caller = "stopped"]
    /\ UNCHANGED <<taskCfg, task_state, taskFrame, connected, wfVars, connVars,
                   lsnVars, fluxVars, nonPoller>>

\* One listener of any of the classes, constructed and not started.
InitPoll ==
    /\ task_kind = [i \in Tasks |-> "TaskBase"]
    /\ task_connectors = [i \in Tasks |-> 0]
    /\ task_tools = [i \in Tasks |-> 0]
    /\ retry_attempts = [i \in Tasks |-> DefaultRetryAttempts]
    /\ InitTaskIdle
    /\ connected = [c \in Connectors |-> FALSE]
    /\ notifiable = [c \in Connectors |-> FALSE]
    /\ InitWorkflowIdle
    /\ InitConnIdle
    /\ InitListenIdle
    /\ InitFluxIdle
    /\ InitToolIdle
    /\ InitRunnerIdle
    /\ \E kind \in PollerKinds : poller = NewPoller(kind)

\* The steps of the background thread.
PollerThread ==
    \/ PollerBegin
    \/ PollerCheck
    \/ PollerPoll
    \/ PollerHandle
    \/ PollerSleep
    \/ PollerServe

NextPoll ==
    \/ PollerStart
    \/ PollerThread
    \/ PollerStop
    \/ PollerJoin

\* A started thread keeps running, every poll and every sleep returns, and a
\* join() whose thread has ended returns; when start() and stop() are called
\* is up to the caller.
FairPoll ==
    /\ WF_vars(PollerBegin)
    /\ WF_vars(PollerCheck)
    /\ WF_vars(PollerPoll)
    /\ WF_vars(PollerHandle)
    /\ WF_vars(PollerSleep)
    /\ WF_vars(PollerServe)
    /\ WF_vars(PollerJoin)

SpecPoll == InitPoll /\ [][NextPoll]_vars /\ FairPoll

\* ============================== claims on the polling listeners
\* C31: in a polling listener, from start() on, the new-item handler has run
\* at most once for each id, whatever the polls returned, and whenever the
\* thread is outside the for loop it has run for every id a successful poll
\* of the loop returned that the listing before the loop did not hold.
C31_KnownItemsDedup ==
    poller.kind \in LoopKinds
    => /\ \A id \in Items : poller.calls[id] <= 1
       /\ poller.thread \in {"check", "poll", "sleep", "exited"}
          => \A id \in poller.seen \ poller.listed : poller.calls[id] = 1

\* A poll has failed, another has returned an id that was known already, and
\* the handler has run for an id; the thread is asleep after its for loop.
C31_Witness ==
    /\ poller.kind \in LoopKinds
    /\ poller.thread = "sleep"
    /\ poller.failed
    /\ poller.again
    /\ \E id \in Items : poller.calls[id] = 1

\* C32: a stop() that waits in join() eventually returns.
C32_StopReturns ==
    (poller.caller = "join") ~> (poller.caller = "stopped")

\* ============================== ToolBase.run()
ToolStates == {"Initialized", "Running", "Success", "Failed"}

\* The loop with one turn less.
LoopContinues_Strict(a, max_retries) == a < max_retries

\* while attempt <= self.max_retries
LoopContinues(a, max_retries) == a <= max_retries

\* run() is called: attempt = 0; self.state = ToolState.RUNNING
ToolRunCall ==
    /\ tool.pc = "idle"
    /\ tool.calls < MaxRuns
    /\ tool' = [tool EXCEPT !.pc = "while", !.state = "Running", !.attempt = 0,
                            !.tried = 0, !.others = 0, !.sleeps = 0,
                            !.ret = "none", !.calls = @ + 1]
    /\ UNCHANGED <<taskCfg, task_state, taskFrame, connected, wfVars, connVars,
                   lsnVars, fluxVars, nonTool>>

\* The loop condition; when it fails run() falls off its end and returns
\* None with the state as it is.
ToolWhile ==
    /\ tool.pc = "while"
    /\ tool' = IF LoopContinues(tool.attempt, tool.max_retries)
               THEN [tool EXCEPT !.pc = "pre_run_hook"]
               ELSE [tool EXCEPT !.pc = "returned", !.ret = "None"]
    /\ UNCHANGED <<taskCfg, task_state, taskFrame, connected, wfVars, connVars,
                   lsnVars, fluxVars, nonTool>>

\* self.pre_run_hook() returns or raises.
ToolPreRunHook ==
    /\ tool.pc = "pre_run_hook"
    /\ \E raised \in BOOLEAN :
          tool' = IF raised
                  THEN [tool EXCEPT !.pc = "except", !.others = @ + 1]
                  ELSE [tool EXCEPT !.pc = "run_logic"]
    /\ UNCHANGED <<taskCfg, task_state, taskFrame, connected, wfVars, connVars,
                   lsnVars, fluxVars, nonTool>>

\* result = self._run_logic(*args, **kwargs) returns or raises.
ToolRunLogic ==
    /\ tool.pc = "run_logic"
    /\ \E raised \in BOOLEAN :
          tool' = IF raised
                  THEN [tool EXCEPT !.pc = "except", !.tried = @ + 1]
                  ELSE [tool EXCEPT !.pc = "post_run_hook", !.tried = @ + 1,
                                    !.others = @ + 1]
    /\ UNCHANGED <<taskCfg, task_state, taskFrame, connected, wfVars, connVars,
                   lsnVars, fluxVars, nonTool>>

\* self.post_run_hook() raises, or returns and then
\* self.state = ToolState.SUCCESS; return result
ToolPostRunHook ==
    /\ tool.pc = "post_run_hook"
    /\ \E raised \in BOOLEAN :
          tool' = IF raised
                  THEN [tool EXCEPT !.pc = "except"]
                  ELSE [tool EXCEPT !.pc = "returned", !.state = "Success",
                                    !.ret = "result"]
    /\ UNCHANGED <<taskCfg, task_state, taskFrame, connected, wfVars, connVars,
                   lsnVars, fluxVars, nonTool>>

\* except Exception: attempt += 1; if attempt > self.max_retries:
\* self.state = ToolState.FAILED; return None; otherwise on to _retry_wait().
ToolExcept ==
    /\ tool.pc = "except"
    /\ tool' = IF tool.attempt + 1 > tool.max_retries
               THEN [tool EXCEPT !.attempt = @ + 1, !.state = "Failed",
                                 !.pc = "returned", !.ret = "None"]
               ELSE [tool EXCEPT !.attempt = @ + 1, !.pc = "retry_wait"]
    /\ UNCHANGED <<taskCfg, task_state, taskFrame, connected, wfVars, connVars,
                   lsnVars, fluxVars, nonTool>>

\* self._retry_wait(attempt): time.sleep(self.backoff_factor ** attempt)
\* returns, and the loop goes round.
ToolRetryWait ==
    /\ tool.pc = "retry_wait"
    /\ tool' = [tool EXCEPT !.sleeps = @ + 1, !.pc = "while"]
    /\ UNCHANGED <<taskCfg, task_state, taskFrame, connected, wfVars, connVars,
                   lsnVars, fluxVars, nonTool>>

\* The caller has the return value of run().
ToolReturn ==
    /\ tool.pc = "returned"
    /\ tool' = [tool EXCEPT !.pc = "idle"]
    /\ UNCHANGED <<taskCfg, task_state, taskFrame, connected, wfVars, connVars,
                   lsnVars, fluxVars, nonTool>>

\* A tool with max_retries in 0..MaxToolRetries, constructed and not run.
InitTool ==
    /\ task_kind = [i \in Tasks |-> "TaskBase"]
    /\ task_connectors = [i \in Tasks |-> 0]
    /\ task_tools = [i \in Tasks |-> 0]
    /\ retry_attempts = [i \in Tasks |-> DefaultRetryAttempts]
    /\ InitTaskIdle
    /\ connected = [c \in Connectors |-> FALSE]
    /\ notifiable = [c \in Connectors |-> FALSE]
    /\ InitWorkflowIdle
    /\ InitConnIdle
    /\ InitListenIdle
    /\ InitFluxIdle
    /\ InitPollIdle
    /\ InitRunnerIdle
    /\ \E m \in 0..MaxToolRetries : tool = NewTool(m)

NextTool ==
    \/ ToolRunCall
    \/ ToolWhile
    \/ ToolPreRunHook
    \/ ToolRunLogic
    \/ ToolPostRunHook
    \/ ToolExcept
    \/ ToolRetryWait
    \/ ToolReturn

SpecTool == InitTool /\ [][NextTool]_vars

\* ============================== claims on ToolBase.run()
\* C34: when run() returns after every one of its attempts ended by
\* _run_logic() raising, the logic was attempted max_retries + 1 times with
\* max_retries backoff sleeps, the state is Failed and run() returned None;
\* and whenever run() returns the state is Success or Failed.
C34_RetryLoop ==
    tool.pc = "returned"
    => /\ tool.state \in {"Success", "Failed"}
       /\ tool.others = 0
          => /\ tool.tried = tool.max_retries + 1
             /\ tool.sleeps = tool.max_retries
             /\ tool.state = "Failed"
             /\ tool.ret = "None"

\* run() of a tool with the largest max_retries has returned after its logic
\* raised on every attempt.
C34_Witness ==
    /\ tool.pc = "returned"
    /\ tool.max_retries = MaxToolRetries
    /\ tool.others = 0
    /\ tool.tried = MaxToolRetries + 1
    /\ tool.state = "Failed"

\* ============================== a task completed over a failed tool
RECURSIVE LastAttempt(_)
\* The entries of the log of execute() made by its last attempt: those after
\* the last pre_execute_hook().
LastAttempt(log) ==
    IF CountOf(log, {"pre_hook"}) = 0 THEN log ELSE LastAttempt(Tail(log))

\* C35: when TaskBase.execute() has returned in state completed, no tool
\* run in its final attempt was left in state Failed, and every bound tool
\* was run in it and left in state Success.
C35_CompletedMeansToolsSucceeded ==
    (/\ tcur # 0
     /\ tpc = "returned"
     /\ task_kind[tcur] = "TaskBase"
     /\ task_state[tcur] = "completed")
    => /\ CountOf(LastAttempt(tlog), {"tool_Failed"}) = 0
       /\ CountOf(LastAttempt(tlog), {"tool_Success"}) = task_tools[tcur]

\* ============================== two events, two run() calls at once
\* on_event() on thread t: self.workflow.run(), whose first statement is
\* self.state = WorkflowState.RUNNING.
EventRun(t) ==
    /\ runner[t].pc = "idle"
    /\ runner[t].incs = 0
    /\ state' = "Running"
    /\ runner' = [runner EXCEPT ![t].pc = "connect"]
    /\ UNCHANGED <<metrics, taskCfg, task_state, taskFrame, connected, wfRest,
                   connVars, lsnVars, fluxVars, poller, tool>>

\* self._connect_connectors() returns, or raises: self.state = FAILED; return
EventConnect(t) ==
    /\ runner[t].pc = "connect"
    /\ \E raised \in BOOLEAN :
          IF raised
          THEN /\ state' = "Failed"
               /\ runner' = [runner EXCEPT ![t].pc = "returned"]
          ELSE /\ runner' = [runner EXCEPT ![t].pc = "tasks", ![t].i = 1]
               /\ UNCHANGED state
    /\ UNCHANGED <<metrics, taskCfg, task_state, taskFrame, connected, wfRest,
                   connVars, lsnVars, fluxVars, poller, tool>>

\* One turn of `for task in self.tasks`, up to the counter it increments:
\* validate() returns False (nothing counted), execute() returns
\* (successful_tasks) or validate() or execute() raises (failed_tasks).
EventTask(t) ==
    /\ runner[t].pc = "tasks"
    /\ IF runner[t].i <= NumTasks
       THEN \E outcome \in {"skipped", "successful_tasks", "failed_tasks"} :
               runner' = IF outcome = "skipped"
                         THEN [runner EXCEPT ![t].i = @ + 1]
                         ELSE [runner EXCEPT ![t].pc = "read",
                                             ![t].key = outcome,
                                             ![t].incs = @ + 1]
       ELSE runner' = [runner EXCEPT ![t].pc = "finish"]
    /\ UNCHANGED <<state, metrics, taskCfg, task_state, taskFrame, connected,
                   wfRest, connVars, lsnVars, fluxVars, poller, tool>>

\* self.metrics[key] += 1, first half: the value is read.
EventIncrementRead(t) ==
    /\ runner[t].pc = "read"
    /\ runner' = [runner EXCEPT ![t].reg = metrics[runner[t].key],
                                ![t].pc = "write"]
    /\ UNCHANGED <<state, metrics, taskCfg, task_state, taskFrame, connected,
                   wfRest, connVars, lsnVars, fluxVars, poller, tool>>

\* self.metrics[key] += 1, second half: the value read plus one is stored.
EventIncrementWrite(t) ==
    /\ runner[t].pc = "write"
    /\ metrics' = [metrics EXCEPT ![runner[t].key] = runner[t].reg + 1]
    /\ runner' = [runner EXCEPT ![t].pc = "tasks", ![t].i = @ + 1,
                                ![t].key = "none", ![t].reg = 0]
    /\ UNCHANGED <<state, taskCfg, task_state, taskFrame, connected, wfRest,
                   connVars, lsnVars, fluxVars, poller, tool>>

\* The rest of run(): the tools and the notifications, then
\* self.state = COMPLETED and total_execution_time; when one of them raises
\* into the outer except block, self.state = FAILED. on_event() passes no
\* callback.
EventFinish(t) ==
    /\ runner[t].pc = "finish"
    /\ \E raised \in BOOLEAN, elapsed \in 0..MaxElapsed :
          IF raised
          THEN /\ state' = "Failed"
               /\ UNCHANGED metrics
          ELSE /\ state' = "Completed"
               /\ metrics' = [metrics EXCEPT !.total_execution_time = elapsed]
    /\ runner' = [runner EXCEPT ![t].pc = "returned"]
    /\ UNCHANGED <<taskCfg, task_state, taskFrame, connected, wfRest, connVars,
                   lsnVars, fluxVars, poller, tool>>

\* A workflow with NumTasks tasks and no run() made yet.
InitEvents ==
    /\ task_kind = [i \in Tasks |-> "TaskBase"]
    /\ task_connectors = [i \in Tasks |-> 0]
    /\ task_tools = [i \in Tasks |-> 0]
    /\ retry_attempts = [i \in Tasks |-> DefaultRetryAttempts]
    /\ InitTaskIdle
    /\ connected = [c \in Connectors |-> FALSE]
    /\ notifiable = [c \in Connectors |-> FALSE]
    /\ InitWorkflowIdle
    /\ InitConnIdle
    /\ InitListenIdle
    /\ InitFluxIdle
    /\ InitCompIdle

NextEvents ==
    \E t \in EventThreads :
       \/ EventRun(t)
       \/ EventConnect(t)
       \/ EventTask(t)
       \/ EventIncrementRead(t)
       \/ EventIncrementWrite(t)
       \/ EventFinish(t)

SpecEvents == InitEvents /\ [][NextEvents]_vars

\* ============================== claims on concurrent runs
\* C38: with two event threads in run() on the same workflow, state is never
\* Completed or Failed while a thread is in the loop over the tasks, and
\* once both runs have returned successful_tasks + failed_tasks equals the
\* number of increments the two runs made.
C38_ConcurrentRuns ==
    /\ state \in {"Completed", "Failed"}
       => \A t \in EventThreads : runner[t].pc \notin {"tasks", "read", "write"}
    /\ (\A t \in EventThreads : runner[t].pc = "returned")
       => metrics.successful_tasks + metrics.failed_tasks
          = runner[1].incs + runner[2].incs

====
